---------------------------- MODULE EvmSide_proofs ---------------------------
(* Theorems about the Bridge contract, about the Federation contract, and   *)
(* about the two together, for any accounts, transactions, tokens, amounts, *)
(* fees, settings, bound on the members and storage left by older versions. *)
EXTENDS EvmSide, Arrays_proofs, SequenceTheorems, FiniteSetTheorems, TLAPS

(***************************************************************************)
(* The Bridge: a transfer is paid once and as accepted, and what was       *)
(* accepted stays payable.                                                 *)
(***************************************************************************)
CrossEvent ==
  [token : Original \cup Side, burned : BOOLEAN, dest : Chain,
   to : {"receiver", "undefined"}, amount : Nat]

ClaimedEvent ==
  [hash : Hash, token : Token, minted : BOOLEAN,
   receiver : Account, amount : Nat, relayer : Account, fee : Nat]

\* The fee is at most a tenth of the divider, so no fee exceeds its amount.
Types == BridgeTypeOK /\ feePercentage <= feePercentageDivider

\* A transfer is kept under its own hash, and one that was paid is claimed.
Paid ==
  /\ \A h \in Hash : accepted[h] # NONE => accepted[h].hash = h
  /\ \A i \in 1..Len(claimLog) : DataHash(accepted[claimLog[i].hash]) \in claimed

\* Until the owner edits one of them, the two maps lead there and back.
MapsAgree ==
  ~remapped => \A p \in Chain \X Original : sideToken[p] # NONE => original[sideToken[p]] = p

Kept == Paid /\ MapsAgree /\ ClaimedOnceAsAccepted /\ AcceptedPayable

BridgeInv == Types /\ Kept

claimVars == <<accepted, claimed, claimLog>>

-----------------------------------------------------------------------------
LEMMA TransfersAre ==
  \A t \in Transfer :
    /\ t.hash \in Hash /\ t.token \in Original /\ t.from \in Account /\ t.to \in Account
    /\ t.amount \in Nat /\ t.origin \in Chain /\ t # NONE /\ <<t.origin, t.token>> \in Chain \X Original
BY BridgeAssumption

-----------------------------------------------------------------------------
(* Amounts.                                                                *)

\* An amount divided or scaled stays an amount; a part of it is not more.
LEMMA Quotient ==
  ASSUME NEW n \in Nat, NEW d \in Nat \ {0}
  PROVE  n \div d \in Nat /\ n % d \in Nat /\ n % d <= n /\ d * (n \div d) <= n
OBVIOUS

LEMMA PartOf ==
  ASSUME NEW n \in Nat, NEW d \in Nat \ {0}, NEW p \in Nat, p <= d
  PROVE  (n * p) \div d \in Nat /\ (n * p) \div d <= n
<1> DEFINE q == (n * p) \div d
<1>1. n * p \in Nat
  OBVIOUS
<1>2. q \in Nat /\ d * q <= n * p
  BY <1>1, Quotient
<1> HIDE DEF q
<1>3. n * p <= n * d
  OBVIOUS
<1>4. q <= n
  <2>1. SUFFICES ASSUME q >= n + 1 PROVE FALSE
    BY <1>2
  <2>2. d * q >= d * (n + 1)
    BY <1>2, <2>1
  <2>3. d * (n + 1) = n * d + d
    OBVIOUS
  <2>4. d * q \in Nat /\ n * d \in Nat
    BY <1>2
  <2> QED BY <1>1, <1>2, <1>3, <2>2, <2>3, <2>4
<1> QED BY <1>2, <1>4 DEF q

LEMMA FeeBounded ==
  ASSUME Types, NEW tok \in Token, NEW amount \in Nat
  PROVE  Fee(tok, amount) \in Nat /\ Fee(tok, amount) <= amount
<1> DEFINE percent == (amount * feePercentage) \div feePercentageDivider
           left == amount - percent
           rest == IF tok \in Side /\ original[tok] # NONE THEN left % Granularity[tok] ELSE 0
<1>1. percent \in Nat /\ percent <= amount
  BY PartOf, BridgeAssumption DEF Types, BridgeTypeOK
<1> HIDE DEF percent
<1>2. left \in Nat
  BY <1>1
<1> HIDE DEF left
<1>3. rest \in Nat /\ rest <= left
  <2>1. CASE tok \in Side /\ original[tok] # NONE
    BY <1>2, <2>1, Quotient, BridgeAssumption
  <2>2. CASE ~ (tok \in Side /\ original[tok] # NONE)
    BY <1>2, <2>2
  <2> QED BY <2>1, <2>2
<1>4. Fee(tok, amount) = percent + rest
  BY DEF Fee, percent, left
<1> HIDE DEF rest
<1>5. percent + rest \in Nat /\ percent + rest <= amount
  BY <1>1, <1>2, <1>3 DEF left
<1> QED BY <1>4, <1>5

-----------------------------------------------------------------------------
(* Types, and what each step does to the balances.                         *)

LEMMA CreditMoves ==
  ASSUME NEW b \in [Holder -> Nat], NEW a \in Holder, NEW n \in Int, b[a] + n >= 0
  PROVE  /\ Credit(b, a, n) \in [Holder -> Nat]
         /\ \A h \in Holder : Credit(b, a, n)[h] = b[h] + IF h = a THEN n ELSE 0
<1>1. ASSUME NEW h \in Holder
      PROVE  Credit(b, a, n)[h] \in Nat /\ Credit(b, a, n)[h] = b[h] + IF h = a THEN n ELSE 0
  <2>1. CASE h = a
    BY <2>1 DEF Credit
  <2>2. CASE h # a
    BY <2>2 DEF Credit
  <2> QED BY <2>1, <2>2
<1>2. Credit(b, a, n) = [h \in Holder |-> Credit(b, a, n)[h]]
  BY DEF Credit
<1> QED BY <1>1, <1>2

\* crossTokens takes the amount from the sender; all but the fee, which goes to
\* the owner, is locked, or burned with a side token.
LEMMA CrossMoves ==
  ASSUME Types, NEW tok \in Token, NEW a \in Account, NEW m \in Nat, NEW d \in Chain,
         NEW to \in {"receiver", "undefined"}, CrossTokens(tok, a, m, d, to)
  PROVE  \E e \in CrossEvent :
           /\ crossLog' = Append(crossLog, e)
           /\ balance' \in [Token -> [Holder -> Nat]]
           /\ ~e.burned => e.token = tok
           /\ \A u \in Token :
                balance'[u][BRIDGE] = balance[u][BRIDGE] + IF u = tok /\ ~e.burned THEN e.amount ELSE 0
<1> DEFINE fee == Fee(tok, m)
           net == m - fee
           isSide == tok \in Side /\ original[tok] # NONE
           e == [token |-> IF isSide THEN original[tok][2] ELSE tok, burned |-> isSide,
                 dest |-> d, to |-> to, amount |-> net]
<1>0. balance \in [Token -> [Holder -> Nat]]
  BY DEF Types, BridgeTypeOK
<1>1. /\ balance[tok][a] >= m
      /\ balance' = [balance EXCEPT ![tok] = Credit(Credit(Credit(balance[tok], a, -m), OWNER, fee),
                                                  BRIDGE, IF isSide THEN 0 ELSE net)]
      /\ crossLog' = Append(crossLog, e)
  BY <1>0 DEF CrossTokens
<1>2. fee \in Nat /\ fee <= m
  BY FeeBounded
<1> HIDE DEF fee
<1>3. net \in Nat
  BY <1>2
<1>5. a \in Holder /\ OWNER \in Holder /\ BRIDGE \in Holder /\ a # OWNER /\ a # BRIDGE /\ OWNER # BRIDGE
  BY BridgeAssumption DEF Holder
<1>6. e \in CrossEvent
  <2>1. isSide => original[tok] \in Chain \X Original
    BY DEF Types, BridgeTypeOK
  <2>2. isSide => original[tok][2] \in Original
    BY <2>1
  <2>3. ~isSide => tok \in Original \cup Side
    BY DEF Token, Original
  <2> QED BY <1>3, <2>2, <2>3 DEF CrossEvent
<1> DEFINE r1 == Credit(balance[tok], a, -m)
           r2 == Credit(r1, OWNER, fee)
           row == Credit(r2, BRIDGE, IF isSide THEN 0 ELSE net)
<1>7. balance[tok] \in [Holder -> Nat] /\ balance' = [balance EXCEPT ![tok] = row]
  BY <1>0, <1>1
<1> HIDE DEF net, isSide, e
<1>8. r1 \in [Holder -> Nat] /\ r1[BRIDGE] = balance[tok][BRIDGE]
  <2>1. balance[tok][a] + -m >= 0 /\ -m \in Int
    BY <1>1, <1>5, <1>7
  <2>2. balance[tok][BRIDGE] + 0 = balance[tok][BRIDGE]
    BY <1>5, <1>7
  <2> QED BY <1>5, <1>7, <2>1, <2>2, CreditMoves
<1> HIDE DEF r1
<1>9. r2 \in [Holder -> Nat] /\ r2[BRIDGE] = balance[tok][BRIDGE]
  <2>1. r1[OWNER] + fee >= 0 /\ r1[BRIDGE] + 0 = r1[BRIDGE]
    BY <1>2, <1>5, <1>8
  <2> QED BY <1>2, <1>5, <1>8, <2>1, CreditMoves
<1> HIDE DEF r2
<1>4. row \in [Holder -> Nat] /\ row[BRIDGE] = balance[tok][BRIDGE] + IF isSide THEN 0 ELSE net
  <2> DEFINE more == IF isSide THEN 0 ELSE net
  <2>1. more \in Nat
    BY <1>3
  <2>2. row = Credit(r2, BRIDGE, more)
    OBVIOUS
  <2> HIDE DEF more, row
  <2>3. r2[BRIDGE] + more >= 0
    BY <1>5, <1>9, <2>1
  <2>4. row \in [Holder -> Nat] /\ row[BRIDGE] = r2[BRIDGE] + more
    BY <1>5, <1>9, <2>1, <2>2, <2>3, CreditMoves
  <2> QED BY <1>9, <2>4 DEF more
<1> HIDE DEF row
<1>10. balance' \in [Token -> [Holder -> Nat]]
  BY <1>0, <1>4, <1>7
<1>11. e.burned = isSide /\ e.amount = net /\ (~isSide => e.token = tok)
  BY DEF e
<1>12. ASSUME NEW u \in Token
       PROVE  balance'[u][BRIDGE] = balance[u][BRIDGE] + IF u = tok /\ ~e.burned THEN e.amount ELSE 0
  <2>1. balance[u][BRIDGE] \in Nat
    BY <1>0, <1>5
  <2>2. CASE u = tok
    BY <1>0, <1>4, <1>7, <1>11, <2>1, <2>2
  <2>3. CASE u # tok
    BY <1>0, <1>7, <2>1, <2>3
  <2> QED BY <2>2, <2>3
<1> QED BY <1>1, <1>6, <1>10, <1>11, <1>12

\* A claim pays the receiver and the relayer, from what is locked or with new tokens.
LEMMA SettleMoves ==
  ASSUME Types, NEW t \in Transfer, NEW receiver \in Account, NEW relayer \in Account, NEW fee \in Nat,
         Release(t, receiver, relayer, fee) \/ Mint(t, receiver, relayer, fee)
  PROVE  \E e \in ClaimedEvent :
           /\ claimLog' = Append(claimLog, e)
           /\ e.hash = t.hash /\ e.receiver = receiver /\ e.fee = fee
           /\ balance' \in [Token -> [Holder -> Nat]]
           /\ ~e.minted => /\ e.token = t.token /\ e.token \in Token
                           /\ e.amount + e.fee = t.amount \div Scale[t.token]
                           /\ e.amount + e.fee <= balance[e.token][BRIDGE]
           /\ \A u \in Token :
                balance'[u][BRIDGE] = balance[u][BRIDGE] - IF u = e.token /\ ~e.minted THEN e.amount + e.fee ELSE 0
<1>1. balance \in [Token -> [Holder -> Nat]]
  BY DEF Types, BridgeTypeOK
<1>2. receiver \in Holder /\ relayer \in Holder /\ BRIDGE \in Holder /\ receiver # BRIDGE /\ relayer # BRIDGE
  BY BridgeAssumption DEF Holder
<1>3. t.hash \in Hash /\ t.amount \in Nat /\ <<t.origin, t.token>> \in Chain \X Original
  BY TransfersAre
<1>4. CASE Release(t, receiver, relayer, fee)
  <2> DEFINE tok == t.token
             out == t.amount \div Scale[tok]
             e == [hash |-> t.hash, token |-> tok, minted |-> FALSE,
                   receiver |-> receiver, amount |-> out - fee, relayer |-> relayer, fee |-> fee]
             r1 == Credit(balance[tok], BRIDGE, -out)
             r2 == Credit(r1, receiver, out - fee)
             row == Credit(r2, relayer, fee)
  <2>1. /\ fee <= out /\ out <= balance[tok][BRIDGE]
        /\ balance' = [balance EXCEPT ![tok] = row]
        /\ claimLog' = Append(claimLog, e)
    BY <1>4 DEF Release
  <2>2. tok \in Token
    BY <1>4 DEF Release, Known, Types, BridgeTypeOK
  <2>3. Scale[tok] \in Nat \ {0}
    BY <2>2, BridgeAssumption
  <2>4. out \in Nat
    BY <1>3, <2>3, Quotient
  <2>5. balance' = [balance EXCEPT ![tok] = row] /\ balance[tok] \in [Holder -> Nat]
    BY <1>1, <2>1, <2>2
  <2> HIDE DEF out, tok
  <2>6. row \in [Holder -> Nat] /\ row[BRIDGE] = balance[tok][BRIDGE] - out
    <3>1. balance[tok][BRIDGE] + -out >= 0 /\ -out \in Int /\ out - fee \in Nat
      BY <1>2, <2>1, <2>4, <2>5
    <3>2. r1 \in [Holder -> Nat] /\ r1[BRIDGE] = balance[tok][BRIDGE] + -out
      BY <1>2, <2>5, <3>1, CreditMoves
    <3> HIDE DEF r1
    <3>3. r2 \in [Holder -> Nat] /\ r2[BRIDGE] = r1[BRIDGE] + 0
      <4>1. r1[receiver] + (out - fee) >= 0
        BY <1>2, <3>1, <3>2
      <4> QED BY <1>2, <3>1, <3>2, <4>1, CreditMoves
    <3> HIDE DEF r2
    <3>4. row \in [Holder -> Nat] /\ row[BRIDGE] = r2[BRIDGE] + 0
      <4>1. r2[relayer] + fee >= 0
        BY <1>2, <3>3
      <4> QED BY <1>2, <3>3, <4>1, CreditMoves
    <3> HIDE DEF row
    <3>5. balance[tok][BRIDGE] \in Nat /\ r1[BRIDGE] \in Nat /\ r2[BRIDGE] \in Nat
      BY <1>2, <2>5, <3>2, <3>3
    <3> QED BY <2>4, <3>2, <3>3, <3>4, <3>5
  <2> HIDE DEF row
  <2>7. e \in ClaimedEvent
    BY <1>3, <2>1, <2>2, <2>4 DEF ClaimedEvent
  <2>8. /\ e.hash = t.hash /\ e.receiver = receiver /\ e.fee = fee /\ ~e.minted /\ e.token = tok
        /\ e.amount + e.fee = out
    BY <2>1, <2>4
  <2> HIDE DEF e
  <2>9. balance' \in [Token -> [Holder -> Nat]]
    BY <1>1, <2>5, <2>6
  <2>10. ASSUME NEW u \in Token
         PROVE  balance'[u][BRIDGE] = balance[u][BRIDGE] - IF u = e.token /\ ~e.minted THEN e.amount + e.fee ELSE 0
    <3>1. balance[u][BRIDGE] \in Nat
      BY <1>1, <1>2
    <3>2. CASE u = tok
      BY <1>1, <2>5, <2>6, <2>8, <3>1, <3>2
    <3>3. CASE u # tok
      BY <1>1, <2>5, <2>8, <3>1, <3>3
    <3> QED BY <3>2, <3>3
  <2>11. ~e.minted => /\ e.token = t.token /\ e.token \in Token
                      /\ e.amount + e.fee = t.amount \div Scale[t.token]
                      /\ e.amount + e.fee <= balance[e.token][BRIDGE]
    BY <2>1, <2>2, <2>8 DEF out, tok
  <2> QED BY <2>1, <2>7, <2>8, <2>9, <2>10, <2>11
<1>5. CASE Mint(t, receiver, relayer, fee)
  <2> DEFINE s == SideTokenOf(t)
             out == t.amount * Granularity[s]
             e == [hash |-> t.hash, token |-> s, minted |-> TRUE,
                   receiver |-> receiver, amount |-> out - fee, relayer |-> relayer, fee |-> fee]
             r1 == Credit(balance[s], receiver, out - fee)
             row == Credit(r1, relayer, fee)
  <2>1. /\ s # NONE /\ fee <= out
        /\ balance' = [balance EXCEPT ![s] = row]
        /\ claimLog' = Append(claimLog, e)
    BY <1>5 DEF Mint
  <2>2. s \in Side
    BY <1>3, <2>1 DEF SideTokenOf, Types, BridgeTypeOK
  <2>3. s \in Token
    BY <2>2 DEF Token
  <2>4. out \in Nat
    <3>1. Granularity[s] \in Nat
      BY <2>2, BridgeAssumption
    <3> QED BY <1>3, <3>1
  <2> HIDE DEF out, s
  <2>5. balance' = [balance EXCEPT ![s] = row] /\ balance[s] \in [Holder -> Nat]
    BY <1>1, <2>1, <2>3
  <2>6. row \in [Holder -> Nat] /\ row[BRIDGE] = balance[s][BRIDGE]
    <3>1. out - fee \in Nat /\ balance[s][receiver] + (out - fee) >= 0
      BY <1>2, <2>1, <2>4, <2>5
    <3>2. r1 \in [Holder -> Nat] /\ r1[BRIDGE] = balance[s][BRIDGE] + 0
      BY <1>2, <2>5, <3>1, CreditMoves
    <3> HIDE DEF r1
    <3>3. row \in [Holder -> Nat] /\ row[BRIDGE] = r1[BRIDGE] + 0
      <4>1. r1[relayer] + fee >= 0
        BY <1>2, <3>2
      <4> QED BY <1>2, <3>2, <4>1, CreditMoves
    <3> HIDE DEF row
    <3>4. balance[s][BRIDGE] \in Nat /\ r1[BRIDGE] \in Nat
      BY <1>2, <2>5, <3>2
    <3> QED BY <3>2, <3>3, <3>4
  <2> HIDE DEF row
  <2>7. e \in ClaimedEvent
    BY <1>3, <2>1, <2>3, <2>4 DEF ClaimedEvent
  <2>8. e.hash = t.hash /\ e.receiver = receiver /\ e.fee = fee /\ e.minted
    OBVIOUS
  <2> HIDE DEF e
  <2>9. balance' \in [Token -> [Holder -> Nat]]
    BY <1>1, <2>5, <2>6
  <2>10. ASSUME NEW u \in Token PROVE balance'[u][BRIDGE] = balance[u][BRIDGE] - 0
    <3>1. balance[u][BRIDGE] \in Nat
      BY <1>1, <1>2
    <3> QED BY <1>1, <2>5, <2>6, <3>1
  <2> QED BY <2>1, <2>7, <2>8, <2>9, <2>10
<1> QED BY <1>4, <1>5

LEMMA ClaimDataAre ==
  ASSUME NEW c \in ClaimData
  PROVE  c.hash \in Hash /\ c.to \in Account
<1>1. PICK t \in Transfer : c = DataHash(t)
  BY DEF ClaimData
<1> QED BY <1>1, TransfersAre DEF DataHash

LEMMA SettleTypes ==
  ASSUME Types, NEW c \in ClaimData, NEW receiver \in Account, NEW relayer \in Account, NEW fee \in Nat,
         Settle(c, receiver, relayer, fee)
  PROVE  Types' /\ accepted[c.hash] \in Transfer
<1> DEFINE t == accepted[c.hash]
<1>1. /\ t # NONE /\ claimed' = claimed \cup {c}
      /\ Release(t, receiver, relayer, fee) \/ Mint(t, receiver, relayer, fee)
      /\ UNCHANGED <<adminVars, tokenVars, accepted, crossLog>>
  BY DEF Settle
<1>2. t \in Transfer
  BY <1>1, ClaimDataAre DEF Types, BridgeTypeOK
<1> HIDE DEF t
<1>3. PICK e \in ClaimedEvent : claimLog' = Append(claimLog, e) /\ balance' \in [Token -> [Holder -> Nat]]
  BY <1>1, <1>2, SettleMoves
<1>4. claimLog' \in Seq(ClaimedEvent)
  BY <1>3, AppendTyped DEF Types, BridgeTypeOK, ClaimedEvent
<1>5. claimed' \subseteq ClaimData \cup LegacyClaimed
  BY <1>1 DEF Types, BridgeTypeOK
<1>6. Types'
  BY <1>1, <1>3, <1>4, <1>5 DEF Types, BridgeTypeOK, adminVars, tokenVars, ClaimedEvent
<1> QED BY <1>2, <1>6 DEF t

LEMMA AnyClaimIs ==
  ASSUME Types, AnyClaim
  PROVE  \E c \in ClaimData, receiver \in Account, relayer \in Account, fee \in Nat :
           /\ Settle(c, receiver, relayer, fee)
           /\ receiver \in {c.to, accepted[c.hash].from} /\ (fee > 0 => receiver = c.to)
<1>1. PICK c \in ClaimData :
        \/ Claim(c)
        \/ \E a \in Account : ClaimFallback(a, c)
        \/ \E a \in Account, fee \in RelayerFees : ClaimGasless(c, a, fee)
  BY DEF AnyClaim
<1>2. c.to \in Account
  BY ClaimDataAre
<1>3. CASE Claim(c)
  BY <1>2, <1>3 DEF Claim
<1>4. CASE \E a \in Account : ClaimFallback(a, c)
  BY <1>4 DEF ClaimFallback
<1>5. CASE \E a \in Account, fee \in RelayerFees : ClaimGasless(c, a, fee)
  BY <1>2, <1>5, BridgeAssumption DEF ClaimGasless
<1> QED BY <1>1, <1>3, <1>4, <1>5

LEMMA AnyCrossIs ==
  ASSUME AnyCross
  PROVE  \E tok \in Token, a \in Account, m \in Nat, d \in Chain, to \in {"receiver", "undefined"} :
           CrossTokens(tok, a, m, d, to)
<1>1. PICK tok \in Token, a \in Account, m \in CrossAmounts, d \in Chain :
        ReceiveTokensTo(tok, a, m, d) \/ TokensReceived(tok, a, m, d)
  BY DEF AnyCross
<1>2. m \in Nat
  BY BridgeAssumption
<1> QED BY <1>1, <1>2 DEF ReceiveTokensTo, TokensReceived

LEMMA TypesInit == BridgeInit => Types
<1> SUFFICES ASSUME BridgeInit PROVE Types
  OBVIOUS
<1>1. crossLog \in Seq(CrossEvent) /\ claimLog \in Seq(ClaimedEvent)
  BY DEF BridgeInit
<1>2. balance \in [Token -> [Holder -> Nat]]
  BY BridgeAssumption DEF BridgeInit
<1>3. feePercentage \in Nat /\ feePercentage <= feePercentageDivider
  BY BridgeAssumption DEF BridgeInit
<1> QED BY <1>1, <1>2, <1>3 DEF BridgeInit, Types, BridgeTypeOK, CrossEvent, ClaimedEvent

LEMMA TypesStep == Types /\ [BridgeNext]_bridgeVars => Types'
<1> SUFFICES ASSUME Types, [BridgeNext]_bridgeVars PROVE Types'
  OBVIOUS
<1> USE DEF Types, BridgeTypeOK
<1>1. CASE UNCHANGED bridgeVars
  BY <1>1 DEF bridgeVars, adminVars, tokenVars
<1>2. CASE \E f \in Federations, t \in Transfer : AcceptTransfer(f, t)
  BY <1>2 DEF AcceptTransfer, adminVars, tokenVars
<1>3. CASE AnyClaim
  <2> HIDE DEF Types
  <2> QED BY <1>3, AnyClaimIs, SettleTypes
<1>4. CASE AnyCross
  <2>1. PICK tok \in Token, a \in Account, m \in Nat, d \in Chain, to \in {"receiver", "undefined"} :
          CrossTokens(tok, a, m, d, to)
    BY <1>4, AnyCrossIs
  <2>2. PICK e \in CrossEvent : crossLog' = Append(crossLog, e) /\ balance' \in [Token -> [Holder -> Nat]]
    <3> HIDE DEF Types
    <3> QED BY <2>1, CrossMoves
  <2>3. crossLog' \in Seq(CrossEvent)
    BY <2>2, AppendTyped DEF CrossEvent
  <2>4. /\ known' \subseteq Chain \X Token
        /\ UNCHANGED <<adminVars, sideToken, original, remapped, accepted, claimed, claimLog>>
    BY <2>1 DEF CrossTokens
  <2> QED BY <2>2, <2>3, <2>4 DEF adminVars, CrossEvent
<1>5. CASE \E d \in Chain, tok \in Original, s \in Side : CreateSideToken(d, tok, s)
  BY <1>5 DEF CreateSideToken, adminVars
<1>6. CASE Administer
  <2>1. UNCHANGED <<tokenVars, accepted, claimed, balance, crossLog, claimLog>>
    BY <1>6 DEF Administer
  <2>2. federation' \in Federations /\ paused' \in BOOLEAN /\ isUpgrading' \in BOOLEAN
    BY <1>6 DEF Administer, SetFeePercentage, ChangeFederation, SetUpgrading, Pause, Unpause
  <2>3. feePercentage' \in Nat /\ feePercentage' <= feePercentageDivider
    <3>1. CASE \E f \in FeePercentages : SetFeePercentage(f)
      <4>1. feePercentageDivider \div 10 <= feePercentageDivider
        BY BridgeAssumption
      <4> QED BY <3>1, <4>1, BridgeAssumption DEF SetFeePercentage
    <3>2. CASE feePercentage' = feePercentage
      BY <3>2
    <3> QED BY <1>6, <3>1, <3>2 DEF Administer, ChangeFederation, SetUpgrading, Pause, Unpause
  <2> QED BY <2>1, <2>2, <2>3 DEF tokenVars
<1>7. CASE Remap
  <2>1. remapped' = TRUE /\ UNCHANGED <<adminVars, known, accepted, claimed, balance, crossLog, claimLog>>
    BY <1>7 DEF Remap, SetSideToken, SetOriginalToken
  <2>2. CASE \E d \in Chain, tok \in Original, s \in Side \cup {NONE} : SetSideToken(d, tok, s)
    BY <2>1, <2>2 DEF SetSideToken, adminVars
  <2>3. CASE \E s \in Side, p \in (Chain \X Original) \cup {NONE} : SetOriginalToken(s, p)
    BY <2>1, <2>3 DEF SetOriginalToken, adminVars
  <2> QED BY <1>7, <2>2, <2>3 DEF Remap
<1> QED BY <1>1, <1>2, <1>3, <1>4, <1>5, <1>6, <1>7 DEF BridgeNext

-----------------------------------------------------------------------------
(* Claims and the two maps.                                                *)

LEMMA BridgeInitInv == BridgeInit => BridgeInv
<1> SUFFICES ASSUME BridgeInit PROVE BridgeInv
  OBVIOUS
<1>1. claimLog = <<>> /\ Len(claimLog) = 0
  BY DEF BridgeInit
<1>2. /\ \A h \in Hash : accepted[h] = NONE
      /\ \A p \in Chain \X Original : sideToken[p] = NONE
  BY DEF BridgeInit
<1> QED BY TypesInit, <1>1, <1>2 DEF BridgeInv, Kept, Paid, MapsAgree, ClaimedOnceAsAccepted, AcceptedPayable

\* Steps that touch neither the records of transfers nor the two maps.
LEMMA NothingPaid ==
  ASSUME BridgeInv, UNCHANGED claimVars
  PROVE  Paid' /\ ClaimedOnceAsAccepted'
BY DEF BridgeInv, Kept, Paid, ClaimedOnceAsAccepted, DataHash, claimVars

LEMMA AcceptKeeps ==
  ASSUME BridgeInv, NEW f, NEW t \in Transfer, AcceptTransfer(f, t)
  PROVE  Kept'
<1>1. /\ accepted[t.hash] = NONE /\ accepted' = [accepted EXCEPT ![t.hash] = t]
      /\ Known(t) \/ SideTokenOf(t) # NONE
      /\ UNCHANGED <<known, sideToken, original, remapped, claimed, claimLog>>
  BY DEF AcceptTransfer, tokenVars
<1>2. t.hash \in Hash /\ t # NONE /\ <<t.origin, t.token>> \in Chain \X Original
  BY TransfersAre
<1>3. /\ accepted'[t.hash] = t
      /\ \A h \in Hash \ {t.hash} : accepted'[h] = accepted[h]
  BY <1>1, <1>2 DEF BridgeInv, Kept, Types, BridgeTypeOK
<1>5. \A i \in 1..Len(claimLog) :
        claimLog[i].hash \in Hash /\ accepted[claimLog[i].hash] # NONE /\ claimLog[i].hash # t.hash
  <2>1. \A i \in 1..Len(claimLog) : claimLog[i] \in ClaimedEvent
    BY ElementOfSeq DEF BridgeInv, Types, BridgeTypeOK, ClaimedEvent
  <2> QED BY <1>1, <2>1 DEF BridgeInv, Kept, ClaimedOnceAsAccepted, ClaimedEvent
<1>6. Paid'
  BY <1>1, <1>2, <1>3, <1>5 DEF BridgeInv, Kept, Paid, DataHash
<1>7. ClaimedOnceAsAccepted'
  BY <1>1, <1>3, <1>5 DEF BridgeInv, Kept, ClaimedOnceAsAccepted
<1>8. MapsAgree'
  BY <1>1 DEF BridgeInv, Kept, MapsAgree
<1>9. AcceptedPayable'
  <2>1. ASSUME ~remapped', NEW h \in Hash, accepted'[h] # NONE
        PROVE  \/ Known(accepted'[h])
               \/ /\ SideTokenOf(accepted'[h]) # NONE
                  /\ original[SideTokenOf(accepted'[h])] = <<accepted'[h].origin, accepted'[h].token>>
    <3>1. CASE h = t.hash
      BY <1>1, <1>2, <1>3, <2>1, <3>1 DEF BridgeInv, Kept, MapsAgree, SideTokenOf
    <3>2. CASE h # t.hash
      BY <1>1, <1>3, <2>1, <3>2 DEF BridgeInv, Kept, AcceptedPayable
    <3> QED BY <3>1, <3>2
  <2> QED BY <1>1, <2>1 DEF AcceptedPayable, Known, SideTokenOf
<1> QED BY <1>6, <1>7, <1>8, <1>9 DEF Kept

\* A claim pays what was accepted under its hash and not paid yet.
LEMMA SettlesAccepted ==
  ASSUME BridgeInv, NEW c \in ClaimData, NEW receiver, NEW relayer, NEW fee, Settle(c, receiver, relayer, fee)
  PROVE  /\ accepted[c.hash] \in Transfer /\ accepted[c.hash].hash = c.hash /\ accepted[c.hash].to = c.to
         /\ c.hash \in Hash /\ UNCHANGED accepted
         /\ \A i \in 1..Len(claimLog) : claimLog[i].hash # c.hash
<1> DEFINE t == accepted[c.hash]
<1>1. t # NONE /\ DataHash(t) = c /\ ~IsClaimed(t) /\ UNCHANGED accepted
  BY DEF Settle
<1>2. c.hash \in Hash /\ c.to = t.to
  BY <1>1 DEF ClaimData, DataHash, Hash
<1>3. t \in Transfer /\ t.hash = c.hash
  BY <1>1, <1>2 DEF BridgeInv, Kept, Types, BridgeTypeOK, Paid
<1>4. c \notin claimed
  BY <1>1 DEF IsClaimed
<1> QED BY <1>1, <1>2, <1>3, <1>4 DEF BridgeInv, Kept, Paid

\* So it keeps what claims are about, under either data hash.
LEMMA SettleKeeps ==
  ASSUME BridgeInv, NEW c \in ClaimData, NEW receiver \in Account, NEW relayer \in Account, NEW fee \in Nat,
         Settle(c, receiver, relayer, fee),
         receiver \in {c.to, accepted[c.hash].from}, fee > 0 => receiver = c.to
  PROVE  Kept'
<1> DEFINE t == accepted[c.hash]
           n == Len(claimLog)
<1>1. /\ t # NONE /\ DataHash(t) = c /\ ~IsClaimed(t) /\ claimed' = claimed \cup {c}
      /\ Release(t, receiver, relayer, fee) \/ Mint(t, receiver, relayer, fee)
      /\ UNCHANGED <<known, sideToken, original, remapped, accepted>>
  BY DEF Settle, tokenVars
<1>3. t \in Transfer /\ t.hash = c.hash /\ c.hash \in Hash /\ c.to = t.to
  BY SettlesAccepted
<1>5. PICK e \in ClaimedEvent : claimLog' = Append(claimLog, e) /\ e.hash = c.hash /\ e.receiver = receiver /\ e.fee = fee
  BY <1>1, <1>3, SettleMoves DEF BridgeInv, Kept
<1>6. /\ Len(claimLog') = n + 1 /\ n \in Nat
      /\ claimLog'[n + 1] = e /\ \A i \in 1..n : claimLog'[i] = claimLog[i]
  BY <1>5, AppendTyped DEF BridgeInv, Kept, Types, BridgeTypeOK, ClaimedEvent
<1>7. \A i \in 1..n : claimLog[i].hash # c.hash
  BY SettlesAccepted
<1> HIDE DEF t, n
<1>9. Paid'
  <2>1. \A h \in Hash : accepted'[h] # NONE => accepted'[h].hash = h
    BY <1>1 DEF BridgeInv, Kept, Paid
  <2>2. \A i \in 1..n : DataHash(accepted[claimLog[i].hash]) \in claimed
    BY DEF BridgeInv, Kept, Paid, n
  <2>3. DataHash(accepted[e.hash]) \in claimed'
    BY <1>1, <1>5 DEF t
  <2>4. \A i \in 1..(n + 1) : DataHash(accepted[claimLog'[i].hash]) \in claimed'
    BY <1>1, <1>6, <2>2, <2>3
  <2> QED BY <1>1, <1>6, <2>1, <2>4 DEF Paid, DataHash
<1>10. ClaimedOnceAsAccepted'
  <2>1. \A i, j \in 1..(n + 1) : claimLog'[i].hash = claimLog'[j].hash => i = j
    BY <1>5, <1>6, <1>7 DEF BridgeInv, Kept, ClaimedOnceAsAccepted, n
  <2>2. \A i \in 1..n :
          /\ accepted[claimLog[i].hash] # NONE
          /\ claimLog[i].receiver \in {accepted[claimLog[i].hash].to, accepted[claimLog[i].hash].from}
          /\ claimLog[i].fee > 0 => claimLog[i].receiver = accepted[claimLog[i].hash].to
    BY DEF BridgeInv, Kept, ClaimedOnceAsAccepted, n
  <2>3. /\ accepted[e.hash] # NONE
        /\ e.receiver \in {accepted[e.hash].to, accepted[e.hash].from}
        /\ e.fee > 0 => e.receiver = accepted[e.hash].to
    BY <1>1, <1>3, <1>5 DEF t
  <2> QED BY <1>1, <1>6, <2>1, <2>2, <2>3 DEF ClaimedOnceAsAccepted
<1>11. MapsAgree' /\ AcceptedPayable'
  BY <1>1 DEF BridgeInv, Kept, MapsAgree, AcceptedPayable, Known, SideTokenOf
<1> QED BY <1>9, <1>10, <1>11 DEF Kept

\* A new side token is led back from; what was known stays known.
LEMMA CreateKeeps ==
  ASSUME BridgeInv, NEW d \in Chain, NEW tok \in Original, NEW s \in Side, CreateSideToken(d, tok, s)
  PROVE  Kept'
<1> DEFINE q == <<d, tok>>
<1>1. /\ sideToken[q] = NONE /\ original[s] = NONE /\ \A p \in Chain \X Original : sideToken[p] # s
      /\ sideToken' = [sideToken EXCEPT ![q] = s] /\ original' = [original EXCEPT ![s] = q]
      /\ UNCHANGED <<known, remapped, accepted, claimed, claimLog>>
  BY DEF CreateSideToken, BridgeInv, Types, BridgeTypeOK
<1>2. q \in Chain \X Original /\ s # NONE /\ q # NONE
  BY BridgeAssumption
<1>3. /\ sideToken'[q] = s /\ \A p \in Chain \X Original : p # q => sideToken'[p] = sideToken[p]
      /\ original'[s] = q /\ \A u \in Side : u # s => original'[u] = original[u]
  BY <1>1, <1>2 DEF BridgeInv, Kept, Types, BridgeTypeOK
<1> HIDE DEF q
<1>5. Paid' /\ ClaimedOnceAsAccepted'
  BY <1>1, NothingPaid DEF claimVars
<1>6. MapsAgree'
  BY <1>1, <1>2, <1>3 DEF BridgeInv, Kept, Types, BridgeTypeOK, MapsAgree
<1>7. AcceptedPayable'
  <2>1. ASSUME ~remapped', NEW h \in Hash, accepted[h] # NONE, ~Known(accepted[h])
        PROVE  LET p == <<accepted[h].origin, accepted[h].token>> IN
               sideToken'[p] # NONE /\ original'[sideToken'[p]] = p
    <3> DEFINE p == <<accepted[h].origin, accepted[h].token>>
    <3>1. p \in Chain \X Original
      BY <2>1, TransfersAre DEF BridgeInv, Kept, Types, BridgeTypeOK
    <3>2. sideToken[p] # NONE
      BY <1>1, <2>1 DEF BridgeInv, Kept, AcceptedPayable, SideTokenOf
    <3>3. sideToken'[p] # NONE
      BY <1>1, <1>3, <3>1, <3>2
    <3> HIDE DEF p
    <3>4. original'[sideToken'[p]] = p
      BY <1>1, <1>6, <2>1, <3>1, <3>3 DEF MapsAgree
    <3> QED BY <3>3, <3>4 DEF p
  <2> QED BY <1>1, <2>1 DEF AcceptedPayable, Known, SideTokenOf
<1> QED BY <1>5, <1>6, <1>7 DEF Kept

\* A crossing makes its token known, and touches no record of a transfer.
LEMMA CrossKeeps ==
  ASSUME BridgeInv, NEW tok \in Token, NEW a, NEW m, NEW d \in Chain, NEW to, CrossTokens(tok, a, m, d, to)
  PROVE  Kept'
<1>1. /\ known' = known \cup {<<d, tok>>}
      /\ UNCHANGED <<sideToken, original, remapped, accepted, claimed, claimLog>>
  BY DEF CrossTokens
<1>2. Paid' /\ ClaimedOnceAsAccepted'
  BY <1>1, NothingPaid DEF claimVars
<1>4. known \subseteq known'
  BY <1>1
<1>5. MapsAgree' /\ AcceptedPayable'
  BY <1>1, <1>4 DEF BridgeInv, Kept, MapsAgree, AcceptedPayable, Known, SideTokenOf
<1> QED BY <1>2, <1>5 DEF Kept

LEMMA AdministerKeeps ==
  ASSUME BridgeInv, Administer
  PROVE  Kept'
<1>1. UNCHANGED <<known, sideToken, original, remapped, accepted, claimed, claimLog>>
  BY DEF Administer, tokenVars
<1>2. Paid' /\ ClaimedOnceAsAccepted'
  BY <1>1, NothingPaid DEF claimVars
<1>3. MapsAgree' /\ AcceptedPayable'
  BY <1>1 DEF BridgeInv, Kept, MapsAgree, AcceptedPayable, Known, SideTokenOf
<1> QED BY <1>2, <1>3 DEF Kept

LEMMA RemapKeeps ==
  ASSUME BridgeInv, Remap
  PROVE  Kept'
<1>1. remapped' = TRUE /\ UNCHANGED <<known, accepted, claimed, claimLog>>
  BY DEF Remap, SetSideToken, SetOriginalToken
<1>3. Paid' /\ ClaimedOnceAsAccepted'
  BY <1>1, NothingPaid DEF claimVars
<1> QED BY <1>1, <1>3 DEF Kept, MapsAgree, AcceptedPayable

LEMMA ClaimKeeps ==
  ASSUME BridgeInv, AnyClaim
  PROVE  Kept'
<1>1. Types
  BY DEF BridgeInv, Kept
<1> QED BY <1>1, AnyClaimIs, SettleKeeps

LEMMA BridgeStep == BridgeInv /\ [BridgeNext]_bridgeVars => BridgeInv'
<1> SUFFICES ASSUME BridgeInv, [BridgeNext]_bridgeVars PROVE Kept'
  BY TypesStep DEF BridgeInv
<1>1. CASE UNCHANGED bridgeVars
  BY <1>1 DEF bridgeVars, tokenVars, BridgeInv, Kept, Paid, MapsAgree, ClaimedOnceAsAccepted, AcceptedPayable,
              DataHash, Known, SideTokenOf
<1>2. CASE \E f \in Federations, t \in Transfer : AcceptTransfer(f, t)
  BY <1>2, AcceptKeeps
<1>3. CASE AnyClaim
  BY <1>3, ClaimKeeps
<1>4. CASE AnyCross
  BY <1>4, AnyCrossIs, CrossKeeps
<1>5. CASE \E d \in Chain, tok \in Original, s \in Side : CreateSideToken(d, tok, s)
  BY <1>5, CreateKeeps
<1>6. CASE Administer
  BY <1>6, AdministerKeeps
<1>7. CASE Remap
  BY <1>7, RemapKeeps
<1> QED BY <1>1, <1>2, <1>3, <1>4, <1>5, <1>6, <1>7 DEF BridgeNext

\* Only acceptTransfer writes what is accepted.
LEMMA AcceptedElsewhere ==
  ASSUME \/ AnyClaim \/ AnyCross \/ Administer \/ Remap
         \/ \E d \in Chain, tok \in Original, s \in Side : CreateSideToken(d, tok, s)
  PROVE  UNCHANGED accepted
<1>1. AnyClaim => UNCHANGED accepted
  BY DEF AnyClaim, Claim, ClaimFallback, ClaimGasless, Settle
<1>2. AnyCross => UNCHANGED accepted
  BY DEF AnyCross, ReceiveTokensTo, TokensReceived, CrossTokens
<1>3. Administer \/ Remap => UNCHANGED accepted
  BY DEF Administer, Remap, SetSideToken, SetOriginalToken
<1>4. (\E d \in Chain, tok \in Original, s \in Side : CreateSideToken(d, tok, s)) => UNCHANGED accepted
  BY DEF CreateSideToken
<1> QED BY <1>1, <1>2, <1>3, <1>4

LEMMA BridgeInductive == BridgeSpec => []BridgeInv
BY BridgeInitInv, BridgeStep, PTL DEF BridgeSpec

-----------------------------------------------------------------------------
(* The escrow: what the events add up to.                                  *)

LockedBy(e, tok) == IF e.token = tok /\ ~e.burned THEN e.amount ELSE 0
ReleasedBy(e, tok) == IF e.token = tok /\ ~e.minted THEN e.amount + e.fee ELSE 0

LockedBys(log, tok) == [i \in 1..Len(log) |-> LockedBy(log[i], tok)]
ReleasedBys(log, tok) == [i \in 1..Len(log) |-> ReleasedBy(log[i], tok)]

LEMMA LockedSums ==
  ASSUME NEW log \in Seq(CrossEvent), NEW tok
  PROVE  \E f \in [0..Len(log) -> Int] :
           Sums(f, LockedBys(log, tok), Len(log)) /\ LockedIn(log, tok) = f[Len(log)]
<1> DEFINE n == Len(log)
           P(g) == g = [i \in 0..n |-> IF i = 0 THEN 0
                          ELSE g[i - 1] + IF log[i].token = tok /\ ~log[i].burned THEN log[i].amount ELSE 0]
<1>1. n \in Nat /\ LockedBys(log, tok) \in [1..n -> Int]
  <2>1. \A i \in 1..n : log[i] \in CrossEvent
    BY ElementOfSeq
  <2>2. \A e \in CrossEvent : LockedBy(e, tok) \in Int
    BY DEF LockedBy, CrossEvent
  <2> QED BY <2>1, <2>2, LenProperties DEF LockedBys
<1>2. PICK f \in [0..n -> Int] : Sums(f, LockedBys(log, tok), n)
  BY <1>1, SumsExist
<1>3. ASSUME NEW g PROVE P(g) <=> Sums(g, LockedBys(log, tok), n)
  <2>1. \A i \in 0..n : i # 0 => i \in 1..n
    BY <1>1
  <2> QED BY <2>1 DEF Sums, LockedBys, LockedBy
<1>4. LockedIn(log, tok) = (CHOOSE g : P(g))[n]
  BY DEF LockedIn, SumOf
<1>5. P(f)
  BY <1>2, <1>3
<1> HIDE DEF P
<1>6. P(CHOOSE g : P(g))
  BY <1>5
<1>7. f = CHOOSE g : P(g)
  BY <1>1, <1>2, <1>3, <1>6, SumsUnique
<1> QED BY <1>2, <1>4, <1>7

LEMMA ReleasedSums ==
  ASSUME NEW log \in Seq(ClaimedEvent), NEW tok
  PROVE  \E f \in [0..Len(log) -> Int] :
           Sums(f, ReleasedBys(log, tok), Len(log)) /\ ReleasedIn(log, tok) = f[Len(log)]
<1> DEFINE n == Len(log)
           P(g) == g = [i \in 0..n |-> IF i = 0 THEN 0
                          ELSE g[i - 1] + IF log[i].token = tok /\ ~log[i].minted
                                          THEN log[i].amount + log[i].fee ELSE 0]
<1>1. n \in Nat /\ ReleasedBys(log, tok) \in [1..n -> Int]
  <2>1. \A i \in 1..n : log[i] \in ClaimedEvent
    BY ElementOfSeq
  <2>2. \A e \in ClaimedEvent : ReleasedBy(e, tok) \in Int
    BY DEF ReleasedBy, ClaimedEvent
  <2> QED BY <2>1, <2>2, LenProperties DEF ReleasedBys
<1>2. PICK f \in [0..n -> Int] : Sums(f, ReleasedBys(log, tok), n)
  BY <1>1, SumsExist
<1>3. ASSUME NEW g PROVE P(g) <=> Sums(g, ReleasedBys(log, tok), n)
  <2>1. \A i \in 0..n : i # 0 => i \in 1..n
    BY <1>1
  <2> QED BY <2>1 DEF Sums, ReleasedBys, ReleasedBy
<1>4. ReleasedIn(log, tok) = (CHOOSE g : P(g))[n]
  BY DEF ReleasedIn, SumOf
<1>5. P(f)
  BY <1>2, <1>3
<1> HIDE DEF P
<1>6. P(CHOOSE g : P(g))
  BY <1>5
<1>7. f = CHOOSE g : P(g)
  BY <1>1, <1>2, <1>3, <1>6, SumsUnique
<1> QED BY <1>2, <1>4, <1>7

\* One more event adds its own amount.
LEMMA LockedAppend ==
  ASSUME NEW log \in Seq(CrossEvent), NEW e \in CrossEvent, NEW tok
  PROVE  /\ LockedIn(log, tok) \in Int
         /\ LockedIn(Append(log, e), tok) = LockedIn(log, tok) + LockedBy(e, tok)
<1> DEFINE more == Append(log, e)
           n == Len(log)
<1>1. /\ more \in Seq(CrossEvent) /\ n \in Nat /\ Len(more) = n + 1
      /\ more[n + 1] = e /\ \A i \in 1..n : more[i] = log[i]
  BY AppendTyped
<1> HIDE DEF more, n
<1>2. PICK f \in [0..n -> Int] : Sums(f, LockedBys(log, tok), n) /\ LockedIn(log, tok) = f[n]
  BY LockedSums DEF n
<1>3. PICK g \in [0..(n + 1) -> Int] : Sums(g, LockedBys(more, tok), n + 1) /\ LockedIn(more, tok) = g[n + 1]
  BY <1>1, LockedSums
<1>4. /\ \A i \in 1..n : LockedBys(log, tok)[i] = LockedBys(more, tok)[i]
      /\ LockedBys(more, tok)[n + 1] = LockedBy(e, tok)
  BY <1>1 DEF LockedBys, n
<1>5. g[n + 1] = f[n] + LockedBys(more, tok)[n + 1]
  <2> DEFINE v == LockedBys(log, tok)
             w == LockedBys(more, tok)
  <2>1. Sums(f, v, n) /\ Sums(g, w, n + 1) /\ \A i \in 1..n : v[i] = w[i]
    BY <1>2, <1>3, <1>4
  <2> HIDE DEF v, w
  <2>2. g[n + 1] = f[n] + w[n + 1]
    <3>1. n \in Nat
      BY <1>1
    <3> QED BY <2>1, <3>1, SumsAppend, ZenonT(30)
  <2> QED BY <2>2 DEF w
<1> QED BY <1>1, <1>2, <1>3, <1>4, <1>5 DEF more

LEMMA ReleasedAppend ==
  ASSUME NEW log \in Seq(ClaimedEvent), NEW e \in ClaimedEvent, NEW tok
  PROVE  /\ ReleasedIn(log, tok) \in Int
         /\ ReleasedIn(Append(log, e), tok) = ReleasedIn(log, tok) + ReleasedBy(e, tok)
<1> DEFINE more == Append(log, e)
           n == Len(log)
<1>1. /\ more \in Seq(ClaimedEvent) /\ n \in Nat /\ Len(more) = n + 1
      /\ more[n + 1] = e /\ \A i \in 1..n : more[i] = log[i]
  BY AppendTyped
<1> HIDE DEF more, n
<1>2. PICK f \in [0..n -> Int] : Sums(f, ReleasedBys(log, tok), n) /\ ReleasedIn(log, tok) = f[n]
  BY ReleasedSums DEF n
<1>3. PICK g \in [0..(n + 1) -> Int] : Sums(g, ReleasedBys(more, tok), n + 1) /\ ReleasedIn(more, tok) = g[n + 1]
  BY <1>1, ReleasedSums
<1>4. /\ \A i \in 1..n : ReleasedBys(log, tok)[i] = ReleasedBys(more, tok)[i]
      /\ ReleasedBys(more, tok)[n + 1] = ReleasedBy(e, tok)
  BY <1>1 DEF ReleasedBys, n
<1>5. g[n + 1] = f[n] + ReleasedBys(more, tok)[n + 1]
  <2> DEFINE v == ReleasedBys(log, tok)
             w == ReleasedBys(more, tok)
  <2>1. Sums(f, v, n) /\ Sums(g, w, n + 1) /\ \A i \in 1..n : v[i] = w[i]
    BY <1>2, <1>3, <1>4
  <2> HIDE DEF v, w
  <2>2. g[n + 1] = f[n] + w[n + 1]
    <3>1. n \in Nat
      BY <1>1
    <3> QED BY <2>1, <3>1, SumsAppend, ZenonT(30)
  <2> QED BY <2>2 DEF w
<1> QED BY <1>1, <1>2, <1>3, <1>4, <1>5 DEF more

\* Nothing is locked or released before the first event.
LEMMA EscrowInit == BridgeInit => EscrowExact
<1> SUFFICES ASSUME BridgeInit, NEW tok \in Token PROVE balance[tok][BRIDGE] = Locked(tok) - Released(tok)
  BY DEF EscrowExact
<1>1. BRIDGE \in Holder /\ BRIDGE \notin Account
  BY BridgeAssumption DEF Holder
<1>2. balance[tok][BRIDGE] = 0
  BY <1>1 DEF BridgeInit
<1>3. crossLog \in Seq(CrossEvent) /\ claimLog \in Seq(ClaimedEvent) /\ Len(crossLog) = 0 /\ Len(claimLog) = 0
  BY DEF BridgeInit
<1>4. PICK f \in [0..0 -> Int] : Sums(f, LockedBys(crossLog, tok), 0) /\ LockedIn(crossLog, tok) = f[0]
  BY <1>3, LockedSums
<1>5. PICK g \in [0..0 -> Int] : Sums(g, ReleasedBys(claimLog, tok), 0) /\ ReleasedIn(claimLog, tok) = g[0]
  BY <1>3, ReleasedSums
<1>6. f[0] = 0 /\ g[0] = 0
  BY <1>4, <1>5, SumsAt
<1> QED BY <1>2, <1>4, <1>5, <1>6 DEF Locked, Released

LEMMA LogsTyped ==
  ASSUME Types
  PROVE  /\ crossLog \in Seq(CrossEvent) /\ claimLog \in Seq(ClaimedEvent)
         /\ \A tok \in Token : Locked(tok) \in Int /\ Released(tok) \in Int /\ balance[tok][BRIDGE] \in Int
<1>1. crossLog \in Seq(CrossEvent) /\ claimLog \in Seq(ClaimedEvent)
  BY DEF Types, BridgeTypeOK, CrossEvent, ClaimedEvent
<1>2. ASSUME NEW tok \in Token PROVE Locked(tok) \in Int /\ Released(tok) \in Int
  <2>1. PICK f \in [0..Len(crossLog) -> Int] : LockedIn(crossLog, tok) = f[Len(crossLog)]
    BY <1>1, LockedSums
  <2>2. PICK g \in [0..Len(claimLog) -> Int] : ReleasedIn(claimLog, tok) = g[Len(claimLog)]
    BY <1>1, ReleasedSums
  <2>3. Len(crossLog) \in Nat /\ Len(claimLog) \in Nat
    BY <1>1, LenProperties
  <2> QED BY <2>1, <2>2, <2>3 DEF Locked, Released
<1>3. \A tok \in Token : balance[tok][BRIDGE] \in Int
  BY DEF Types, BridgeTypeOK, Holder
<1> QED BY <1>1, <1>2, <1>3

LEMMA EscrowStep == BridgeInv /\ EscrowExact /\ [BridgeNext]_bridgeVars => EscrowExact'
<1> SUFFICES ASSUME Types, EscrowExact, [BridgeNext]_bridgeVars PROVE EscrowExact'
  BY DEF BridgeInv
<1>0. /\ crossLog \in Seq(CrossEvent) /\ claimLog \in Seq(ClaimedEvent)
      /\ \A tok \in Token : /\ Locked(tok) \in Int /\ Released(tok) \in Int /\ balance[tok][BRIDGE] \in Int
                            /\ balance[tok][BRIDGE] = Locked(tok) - Released(tok)
  BY LogsTyped DEF EscrowExact
<1>1. CASE UNCHANGED <<balance, crossLog, claimLog>>
  BY <1>1 DEF EscrowExact, Locked, Released
<1>2. CASE AnyClaim
  <2>1. PICK c \in ClaimData, receiver \in Account, relayer \in Account, fee \in Nat :
          Settle(c, receiver, relayer, fee)
    BY <1>2, AnyClaimIs
  <2>2. crossLog' = crossLog /\ accepted[c.hash] \in Transfer
    BY <2>1, SettleTypes DEF Settle
  <2>3. PICK e \in ClaimedEvent :
          /\ claimLog' = Append(claimLog, e)
          /\ \A u \in Token :
               balance'[u][BRIDGE] = balance[u][BRIDGE] - IF u = e.token /\ ~e.minted THEN e.amount + e.fee ELSE 0
    <3>1. Release(accepted[c.hash], receiver, relayer, fee) \/ Mint(accepted[c.hash], receiver, relayer, fee)
      BY <2>1 DEF Settle
    <3> QED BY <2>2, <3>1, SettleMoves
  <2>4. ASSUME NEW u \in Token PROVE balance'[u][BRIDGE] = LockedIn(crossLog', u) - ReleasedIn(claimLog', u)
    <3>1. ReleasedIn(claimLog', u) = Released(u) + ReleasedBy(e, u)
      BY <1>0, <2>3, ReleasedAppend DEF Released
    <3>2. ReleasedBy(e, u) \in Int /\ balance'[u][BRIDGE] = balance[u][BRIDGE] - ReleasedBy(e, u)
      BY <2>3 DEF ReleasedBy, ClaimedEvent
    <3>3. LockedIn(crossLog', u) = Locked(u)
      BY <2>2 DEF Locked
    <3> QED BY <1>0, <3>1, <3>2, <3>3
  <2> QED BY <2>4 DEF EscrowExact, Locked, Released
<1>3. CASE AnyCross
  <2>1. PICK tok \in Token, a \in Account, m \in Nat, d \in Chain, to \in {"receiver", "undefined"} :
          CrossTokens(tok, a, m, d, to)
    BY <1>3, AnyCrossIs
  <2>2. claimLog' = claimLog
    BY <2>1 DEF CrossTokens
  <2>3. PICK e \in CrossEvent :
          /\ crossLog' = Append(crossLog, e)
          /\ ~e.burned => e.token = tok
          /\ \A u \in Token :
               balance'[u][BRIDGE] = balance[u][BRIDGE] + IF u = tok /\ ~e.burned THEN e.amount ELSE 0
    BY <2>1, CrossMoves
  <2>4. ASSUME NEW u \in Token PROVE balance'[u][BRIDGE] = LockedIn(crossLog', u) - ReleasedIn(claimLog', u)
    <3>1. LockedIn(crossLog', u) = Locked(u) + LockedBy(e, u)
      BY <1>0, <2>3, LockedAppend DEF Locked
    <3>2. LockedBy(e, u) \in Int /\ balance'[u][BRIDGE] = balance[u][BRIDGE] + LockedBy(e, u)
      BY <2>3 DEF LockedBy, CrossEvent
    <3>3. ReleasedIn(claimLog', u) = Released(u)
      BY <2>2 DEF Released
    <3> QED BY <1>0, <3>1, <3>2, <3>3
  <2> QED BY <2>4 DEF EscrowExact, Locked, Released
<1>4. CASE \E f \in Federations, t \in Transfer : AcceptTransfer(f, t)
  BY <1>1, <1>4 DEF AcceptTransfer
<1>5. CASE \E d \in Chain, tok \in Original, s \in Side : CreateSideToken(d, tok, s)
  BY <1>1, <1>5 DEF CreateSideToken
<1>6. Administer \/ Remap => UNCHANGED <<balance, crossLog, claimLog>>
  BY DEF Administer, Remap, SetSideToken, SetOriginalToken
<1>7. UNCHANGED bridgeVars => UNCHANGED <<balance, crossLog, claimLog>>
  BY DEF bridgeVars
<1> QED BY <1>1, <1>2, <1>3, <1>4, <1>5, <1>6, <1>7 DEF BridgeNext

-----------------------------------------------------------------------------
(* Theorems *)

\* Balances, maps and events keep their types: whatever the fees, the granularities
\* and the scales, no step takes an amount below zero.
THEOREM BridgeTyped == BridgeSpec => []BridgeTypeOK
<1>1. BridgeInv => BridgeTypeOK
  BY DEF BridgeInv, Types
<1> QED BY <1>1, BridgeInductive, PTL

\* The bridge holds of every token what its Cross events announced and no claim has
\* released, for any fees, amounts, scales and number of events.
THEOREM EscrowStaysExact == BridgeSpec => []EscrowExact
BY EscrowInit, EscrowStep, BridgeInductive, PTL DEF BridgeSpec

\* A transfer is paid once under its hash, as it was accepted, whatever the way of
\* claiming and whatever the owner changes.
THEOREM PaidOnceAsAccepted == BridgeSpec => []ClaimedOnceAsAccepted
<1>1. BridgeInv => ClaimedOnceAsAccepted
  BY DEF BridgeInv, Kept
<1> QED BY <1>1, BridgeInductive, PTL

\* What was accepted stays payable, and a side token leads back, until the owner
\* edits a map by hand.
THEOREM AcceptedStaysPayable == BridgeSpec => []AcceptedPayable
<1>1. BridgeInv => AcceptedPayable
  BY DEF BridgeInv, Kept
<1> QED BY <1>1, BridgeInductive, PTL

\* What is accepted under a hash is never replaced or withdrawn.
THEOREM AcceptanceIsFinal == BridgeSpec => [][\A h \in Hash : accepted[h] # NONE => accepted'[h] = accepted[h]]_bridgeVars
<1> DEFINE Final == \A h \in Hash : accepted[h] # NONE => accepted'[h] = accepted[h]
<1>1. BridgeInv /\ [BridgeNext]_bridgeVars => [Final]_bridgeVars
  <2> SUFFICES ASSUME BridgeInv, BridgeNext PROVE Final
    OBVIOUS
  <2>1. CASE UNCHANGED accepted
    BY <2>1
  <2>2. CASE \E f \in Federations, t \in Transfer : AcceptTransfer(f, t)
    BY <2>2, TransfersAre DEF AcceptTransfer, BridgeInv, Types
  <2> QED BY <2>1, <2>2, AcceptedElsewhere DEF BridgeNext
<1> QED BY <1>1, BridgeInductive, PTL DEF BridgeSpec

(***************************************************************************)
(* The Federation: what is processed was voted for by a majority.          *)
(***************************************************************************)
\* The inductive invariant behind the type invariant and MembersConsistent.
FederationInv == FederationTypeOK /\ MembersConsistent

\* The bodies of MajorityApproved and NoForgedTransfer, as actions.
MajorityStep ==
  \A t \in processed' \ processed :
    /\ 2 * Cardinality(Approvers(votes', t)) > Cardinality(Members)
    /\ Cardinality(Approvers(votes', t)) >= required

NoForgedStep ==
  \A t \in processed' \ processed : t \in Genuine \/ DishonestReachThreshold

\* No honest account has voted, under either id, for what did not happen.
HonestVotes ==
  \A t \in Transaction \ Genuine : VotersOf(votes, t) \cap Honest = {}

-----------------------------------------------------------------------------
(* The array of members.                                                   *)

\* A duplicate-free array has as many members as positions, and any set V of
\* accounts occurs at as many positions as it has accounts among the members.
LEMMA CountingPositions ==
  ASSUME FederationTypeOK, MembersConsistent, NEW V
  PROVE  /\ IsFiniteSet(Members)
         /\ Cardinality(Members) = Len(members)
         /\ IsFiniteSet(Members \cap V)
         /\ Cardinality({i \in DOMAIN members : members[i] \in V})
              = Cardinality(Members \cap V)
BY CountingElements DEF FederationTypeOK, MembersConsistent, Members

-----------------------------------------------------------------------------
LEMMA FederationInitInv == FederationInit => FederationInv
<1> SUFFICES ASSUME FederationInit PROVE FederationInv
  OBVIOUS
<1>1. PICK n \in 1..MAX_MEMBER_COUNT : members \in [1..n -> Address \ {NULL_ADDRESS}]
  BY DEF FederationInit
<1>2. n \in Nat
  BY <1>1, CountAssumption
<1>3. /\ members \in Seq(Address \ {NULL_ADDRESS})
      /\ Len(members) = n /\ DOMAIN members = 1..n
  BY <1>1, <1>2, LenOfFunction
<1>4. members \in Seq(Address)
  BY <1>3, SeqMonotonic
<1>5. votes \in [Id -> SUBSET Address]
  BY LegacyAssumption DEF FederationInit, Id
<1>6. FederationTypeOK
  BY <1>4, <1>5, LegacyAssumption, CountAssumption DEF FederationInit, FederationTypeOK, Id
<1>7. NULL_ADDRESS \notin Members
  BY <1>1, <1>3 DEF Members, Elements
<1>8. MembersConsistent
  <2>1. NoDuplicates(members)
    BY DEF FederationInit
  <2>2. \A a \in Address : isMember[a] <=> a \in Members
    BY DEF FederationInit
  <2>3. ~isMember[NULL_ADDRESS]
    BY <1>7, <2>2, AddressAssumption
  <2>4. n <= MAX_MEMBER_COUNT /\ required \in 1..n
    BY <1>1, <1>2, <1>3, CountAssumption DEF FederationInit, ValidRequirement
  <2> QED BY <1>3, <2>1, <2>2, <2>3, <2>4 DEF MembersConsistent
<1> QED BY <1>6, <1>8 DEF FederationInv

LEMMA AddMemberInv ==
  ASSUME FederationInv, NEW a \in Address, AddMember(a)
  PROVE  FederationInv'
<1>1. Len(members) \in Nat
  BY LenProperties DEF FederationInv, FederationTypeOK
<1>4. a \notin Members
  BY DEF AddMember, FederationInv, MembersConsistent
<1>2. /\ members' \in Seq(Address)
      /\ Len(members') = Len(members) + 1
      /\ NoDuplicates(members')
      /\ Elements(members') = Elements(members) \cup {a}
  BY <1>4, AppendAdds DEF AddMember, FederationInv, FederationTypeOK, MembersConsistent, Members
<1>3. Members' = Members \cup {a}
  BY <1>2 DEF Members
<1>6. FederationTypeOK'
  BY <1>2 DEF AddMember, FederationInv, FederationTypeOK
<1>7. \A b \in Address : isMember'[b] <=> b \in Members'
  BY <1>3 DEF AddMember, FederationInv, FederationTypeOK, MembersConsistent
<1>8. ~isMember'[NULL_ADDRESS]
  BY AddressAssumption DEF AddMember, FederationInv, FederationTypeOK, MembersConsistent
<1>9. Len(members') <= MAX_MEMBER_COUNT /\ required' \in 1..Len(members')
  BY <1>1, <1>2, CountAssumption DEF AddMember, FederationInv, MembersConsistent
<1> QED BY <1>2, <1>6, <1>7, <1>8, <1>9 DEF FederationInv, MembersConsistent

LEMMA RemoveMemberInv ==
  ASSUME FederationInv, NEW a \in Address, RemoveMember(a)
  PROVE  FederationInv'
<1> DEFINE n == Len(members)
<1>1. n \in Nat /\ members \in [1..n -> Address] /\ DOMAIN members = 1..n
  BY LenProperties DEF FederationInv, FederationTypeOK
<1>2. PICK k \in 1..n : members[k] = a
  BY <1>1 DEF RemoveMember, FederationInv, MembersConsistent, Members, Elements
<1>3. /\ members' \in Seq(Address)
      /\ Len(members') = n - 1
      /\ NoDuplicates(members')
      /\ Elements(members') = Elements(members) \ {a}
  <2>1. members \in Seq(Address) /\ NoDuplicates(members) /\ k \in 1..Len(members)
    BY <1>2 DEF FederationInv, FederationTypeOK, MembersConsistent
  <2>2. members' = SwapAndPop(members, members[k])
    BY <1>2 DEF RemoveMember
  <2> QED BY <1>2, <2>1, <2>2, SwapAndPopRemoves
<1>5. Members' = Members \ {a}
  BY <1>3 DEF Members, Elements
<1>6. FederationTypeOK'
  BY <1>3 DEF RemoveMember, FederationInv, FederationTypeOK
<1>7. \A b \in Address : isMember'[b] <=> b \in Members'
  BY <1>5 DEF RemoveMember, FederationInv, FederationTypeOK, MembersConsistent
<1>8. ~isMember'[NULL_ADDRESS]
  BY AddressAssumption DEF RemoveMember, FederationInv, FederationTypeOK, MembersConsistent
<1>9. Len(members') <= MAX_MEMBER_COUNT /\ required' \in 1..Len(members')
  BY <1>1, <1>3, CountAssumption DEF RemoveMember, FederationInv, MembersConsistent
<1> QED BY <1>3, <1>6, <1>7, <1>8, <1>9 DEF FederationInv, MembersConsistent

LEMMA VoteInv ==
  ASSUME FederationInv, NEW m \in Address, NEW t \in Transaction, VoteTransaction(m, t)
  PROVE  FederationInv'
<1>1. votes' \in [Id -> SUBSET Address] /\ processed' \in SUBSET Id
  BY DEF VoteTransaction, FederationInv, FederationTypeOK, Id
<1>2. FederationTypeOK'
  BY <1>1 DEF VoteTransaction, FederationInv, FederationTypeOK
<1>3. Members' = Members
  BY DEF VoteTransaction, Members
<1>4. MembersConsistent'
  BY <1>3 DEF VoteTransaction, FederationInv, MembersConsistent
<1> QED BY <1>2, <1>4 DEF FederationInv

LEMMA ChangeRequirementInv ==
  ASSUME FederationInv, NEW r \in 0..MAX_MEMBER_COUNT, ChangeRequirement(r)
  PROVE  FederationInv'
<1>1. Len(members) \in Nat
  BY LenProperties DEF FederationInv, FederationTypeOK
<1>2. r \in Nat /\ required' = r /\ r \in 1..Len(members)
  BY <1>1, CountAssumption DEF ChangeRequirement, ValidRequirement
<1>3. FederationTypeOK'
  BY <1>2 DEF ChangeRequirement, FederationInv, FederationTypeOK
<1>4. Members' = Members
  BY DEF ChangeRequirement, Members
<1>5. MembersConsistent'
  BY <1>2, <1>4 DEF ChangeRequirement, FederationInv, MembersConsistent
<1> QED BY <1>3, <1>5 DEF FederationInv

LEMMA FederationStep == FederationInv /\ [FederationNext]_federationVars => FederationInv'
<1> SUFFICES ASSUME FederationInv, [FederationNext]_federationVars PROVE FederationInv'
  OBVIOUS
<1>1. CASE \E m \in Address, t \in Transaction : MayVote(m, t) /\ VoteTransaction(m, t)
  BY <1>1, VoteInv
<1>2. CASE \E a \in Address : AddMember(a) \/ RemoveMember(a)
  BY <1>2, AddMemberInv, RemoveMemberInv
<1>3. CASE \E r \in 0..MAX_MEMBER_COUNT : ChangeRequirement(r)
  BY <1>3, ChangeRequirementInv
<1>4. CASE \E b \in Bridges : SetBridge(b)
  <2>1. FederationTypeOK'
    BY <1>4 DEF SetBridge, FederationInv, FederationTypeOK
  <2>2. Members' = Members
    BY <1>4 DEF SetBridge, Members
  <2>3. MembersConsistent'
    BY <1>4, <2>2 DEF SetBridge, FederationInv, MembersConsistent
  <2> QED BY <2>1, <2>3 DEF FederationInv
<1>5. CASE UNCHANGED federationVars
  <2>1. FederationTypeOK'
    BY <1>5 DEF federationVars, FederationInv, FederationTypeOK
  <2>2. Members' = Members
    BY <1>5 DEF federationVars, Members
  <2>3. MembersConsistent'
    BY <1>5, <2>2 DEF federationVars, FederationInv, MembersConsistent
  <2> QED BY <2>1, <2>3 DEF FederationInv
<1> QED BY <1>1, <1>2, <1>3, <1>4, <1>5 DEF FederationNext

LEMMA FederationInductive == FederationSpec => []FederationInv
BY FederationInitInv, FederationStep, PTL DEF FederationSpec

\* Every variable keeps its type.
THEOREM TypeCorrect == FederationSpec => []FederationTypeOK
<1>1. FederationInv => FederationTypeOK
  BY DEF FederationInv
<1> QED BY <1>1, FederationInductive, PTL

\* However members are added and removed by swap-and-pop (addMember l.335,
\* removeMember l.345) and the requirement changes, the array has no
\* duplicates, isMember is its range and the requirement can be reached.
THEOREM MembersStayConsistent == FederationSpec => []MembersConsistent
<1>1. FederationInv => MembersConsistent
  BY DEF FederationInv
<1> QED BY <1>1, FederationInductive, PTL

-----------------------------------------------------------------------------
(* What it takes for a transaction to be processed.                        *)

\* Only a vote processes a transaction, and only with a sufficient count.
LEMMA ProcessedByVote ==
  ASSUME FederationInv, [FederationNext]_federationVars, NEW t \in processed' \ processed
  PROVE  /\ t \in Transaction
         /\ \E m \in Address : MayVote(m, t) /\ VoteTransaction(m, t)
         /\ ValidateTransaction(votes', t)
<1>1. PICK m \in Address, u \in Transaction : MayVote(m, u) /\ VoteTransaction(m, u)
  BY DEF FederationNext, federationVars, AddMember, RemoveMember, ChangeRequirement, SetBridge
<1>2. t = u /\ ValidateTransaction(votes', u)
  BY <1>1 DEF VoteTransaction
<1> QED BY <1>1, <1>2

LEMMA MajorityInStep == FederationInv /\ [FederationNext]_federationVars => MajorityStep
<1> SUFFICES ASSUME FederationInv, [FederationNext]_federationVars, NEW t \in processed' \ processed
             PROVE  /\ 2 * Cardinality(Approvers(votes', t)) > Cardinality(Members)
                    /\ Cardinality(Approvers(votes', t)) >= required
  BY DEF MajorityStep
<1> DEFINE V == VotersOf(votes', t)
           c == AmountVotes(votes', t)
<1>1. ValidateTransaction(votes', t)
  BY ProcessedByVote
<1>2. /\ IsFiniteSet(Members \cap V)
      /\ Cardinality(Members) = Len(members)
      /\ c = Cardinality(Approvers(votes', t))
  BY CountingPositions DEF FederationInv, AmountVotes, Approvers
<1>3. c \in Nat /\ Len(members) \in Nat
  BY <1>2, FS_CardinalityType, LenProperties DEF Approvers, FederationInv, FederationTypeOK
<1>4. c >= Len(members) \div 2 + 1 /\ c >= required
  BY <1>1 DEF ValidateTransaction, getMinimalNumberOfVotes
<1>5. 2 * c > Len(members)
  BY <1>3, <1>4
<1> QED BY <1>2, <1>4, <1>5

\* A transaction is processed only by a strict majority of the distinct
\* present members, at least `required` of them (validateTransaction l.114).
THEOREM ProcessedOnlyByMajority == FederationSpec => MajorityApproved
<1>1. FederationSpec => [][MajorityStep]_federationVars
  BY FederationInductive, MajorityInStep, PTL DEF FederationSpec
<1> QED BY <1>1 DEF MajorityApproved, MajorityStep

LEMMA HonestInit == FederationInit => HonestVotes
BY LegacyAssumption, HonestAssumption DEF FederationInit, HonestVotes, VotersOf, Id

LEMMA HonestStep == FederationInv /\ HonestVotes /\ [FederationNext]_federationVars => HonestVotes'
<1> SUFFICES ASSUME FederationInv, HonestVotes, [FederationNext]_federationVars,
                    NEW t \in Transaction \ Genuine
             PROVE  VotersOf(votes', t) \cap Honest = {}
  BY DEF HonestVotes, VotersOf
<1>1. CASE votes' = votes
  BY <1>1 DEF HonestVotes
<1>2. CASE votes' # votes
  <2>1. PICK m \in Address, u \in Transaction : MayVote(m, u) /\ VoteTransaction(m, u)
    BY <1>2 DEF FederationNext, federationVars, AddMember, RemoveMember, ChangeRequirement, SetBridge
  <2>2. LegacyId[t] \in Legacy /\ u # LegacyId[t] /\ t \in Id
    BY LegacyAssumption DEF Id
  <2>3. votes' = [votes EXCEPT ![u] = @ \cup {m}] /\ votes \in [Id -> SUBSET Address]
    BY <2>1 DEF VoteTransaction, FederationInv, FederationTypeOK
  <2>4. votes'[LegacyId[t]] = votes[LegacyId[t]]
    BY <2>2, <2>3 DEF Id
  <2>5. CASE u = t
    <3>1. m \notin Honest
      BY <2>1, <2>5 DEF MayVote
    <3>2. votes'[t] = votes[t] \cup {m}
      BY <2>2, <2>3, <2>5
    <3> QED BY <2>4, <3>1, <3>2 DEF HonestVotes, VotersOf
  <2>6. CASE u # t
    <3>1. votes'[t] = votes[t]
      BY <2>2, <2>3, <2>6
    <3> QED BY <2>4, <3>1 DEF HonestVotes, VotersOf
  <2> QED BY <2>5, <2>6
<1> QED BY <1>1, <1>2

LEMMA HonestInductive == FederationSpec => [](FederationInv /\ HonestVotes)
<1>1. FederationInit => FederationInv /\ HonestVotes
  BY FederationInitInv, HonestInit
<1>2. FederationInv /\ HonestVotes /\ [FederationNext]_federationVars => (FederationInv /\ HonestVotes)'
  BY FederationStep, HonestStep
<1> QED BY <1>1, <1>2, PTL DEF FederationSpec

LEMMA NoForgedInStep == FederationInv /\ HonestVotes' /\ [FederationNext]_federationVars => NoForgedStep
<1> SUFFICES ASSUME FederationInv, HonestVotes', [FederationNext]_federationVars,
                    NEW t \in processed' \ processed, t \notin Genuine
             PROVE  DishonestReachThreshold
  BY DEF NoForgedStep
<1> DEFINE I == {i \in DOMAIN members : members[i] \in VotersOf(votes', t)}
<1>1. t \in Transaction /\ ValidateTransaction(votes', t)
  BY ProcessedByVote
<1>2. VotersOf(votes', t) \cap Honest = {}
  BY <1>1 DEF HonestVotes, VotersOf
<1>3. I \subseteq Dishonest
  BY <1>2 DEF Dishonest
<1>4. Len(members) \in Nat /\ DOMAIN members = 1..Len(members)
  BY LenProperties DEF FederationInv, FederationTypeOK
<1>5. IsFiniteSet(DOMAIN members)
  BY <1>4, FS_Interval
<1>6. IsFiniteSet(Dishonest)
  BY <1>5, FS_Subset DEF Dishonest
<1>7. IsFiniteSet(I) /\ Cardinality(I) <= Cardinality(Dishonest)
  BY <1>3, <1>6, FS_Subset
<1>8. Cardinality(I) \in Nat /\ Cardinality(Dishonest) \in Nat
  BY <1>6, <1>7, FS_CardinalityType
<1>9. Cardinality(I) >= getMinimalNumberOfVotes /\ Cardinality(I) >= required
  BY <1>1 DEF ValidateTransaction, AmountVotes
<1>10. getMinimalNumberOfVotes \in Nat /\ required \in Nat
  BY <1>4 DEF getMinimalNumberOfVotes, FederationInv, FederationTypeOK
<1> QED BY <1>7, <1>8, <1>9, <1>10 DEF DishonestReachThreshold

\* A transfer that never happened is processed only when the dishonest
\* present members alone reach the threshold, whatever the history of the
\* membership and whatever votes older versions left behind.
THEOREM NoForgery == FederationSpec => NoForgedTransfer
<1>1. FederationSpec => [][NoForgedStep]_federationVars
  BY HonestInductive, NoForgedInStep, PTL DEF FederationSpec
<1> QED BY <1>1 DEF NoForgedTransfer, NoForgedStep

\* All present members together are a majority that meets any requirement.
LEMMA AllVotesSuffice ==
  ASSUME FederationInv, NEW V, Members \subseteq V
  PROVE  LET c == Cardinality({i \in DOMAIN members : members[i] \in V}) IN
         c >= getMinimalNumberOfVotes /\ c >= required
<1> DEFINE c == Cardinality({i \in DOMAIN members : members[i] \in V})
<1>1. Members \cap V = Members
  OBVIOUS
<1>2. c = Len(members)
  BY <1>1, CountingPositions DEF FederationInv
<1>3. Len(members) \in Nat /\ required \in 1..Len(members)
  BY LenProperties DEF FederationInv, FederationTypeOK, MembersConsistent
<1>4. Len(members) \div 2 + 1 <= Len(members) /\ required <= Len(members)
  BY <1>3
<1> QED BY <1>2, <1>4 DEF getMinimalNumberOfVotes

\* The body of LastVoteAccepts.
LastVoteStep ==
  \A t \in Transaction :
    AllVoted(t)' /\ ~AllVoted(t) => IsProcessed(t)' \/ Len(members') < Len(members)

LEMMA LastVoteInStep == FederationInv /\ [FederationNext]_federationVars => LastVoteStep
<1> SUFFICES ASSUME FederationInv, [FederationNext]_federationVars, NEW t \in Transaction,
                    Members' \subseteq VotersOf(votes', t), ~ (Members \subseteq VotersOf(votes, t))
             PROVE  t \in processed' \/ Len(members') < Len(members)
  BY DEF LastVoteStep, AllVoted, IsProcessed, VotersOf
<1>1. CASE \E m \in Address, u \in Transaction : MayVote(m, u) /\ VoteTransaction(m, u)
  <2>1. PICK m \in Address, u \in Transaction : VoteTransaction(m, u)
    BY <1>1
  <2>2. /\ members' = members /\ votes' = [votes EXCEPT ![u] = @ \cup {m}]
        /\ processed' = IF ValidateTransaction(votes', u) THEN processed \cup {u} ELSE processed
    BY <2>1 DEF VoteTransaction
  <2>3. Members' = Members
    BY <2>2 DEF Members
  <2>4. LegacyId[t] # u
    BY LegacyAssumption
  <2>5. u = t
    <3>1. SUFFICES ASSUME u # t PROVE votes'[t] = votes[t] /\ votes'[LegacyId[t]] = votes[LegacyId[t]]
      BY <2>3 DEF VotersOf
    <3> QED BY <2>2, <2>4, <3>1, LegacyAssumption DEF FederationInv, FederationTypeOK, Id
  <2>6. ValidateTransaction(votes', t)
    BY <2>3, AllVotesSuffice DEF ValidateTransaction, AmountVotes
  <2> QED BY <2>2, <2>5, <2>6
<1>2. CASE \E a \in Address : AddMember(a)
  <2>1. PICK a \in Address : AddMember(a)
    BY <1>2
  <2>2. a \notin Elements(members)
    BY <2>1 DEF AddMember, FederationInv, MembersConsistent, Members
  <2>3. Elements(members') = Elements(members) \cup {a} /\ votes' = votes
    BY <2>1, <2>2, AppendAdds DEF AddMember, FederationInv, FederationTypeOK, MembersConsistent
  <2> QED BY <2>3 DEF Members
<1>3. CASE \E a \in Address : RemoveMember(a)
  <2>1. PICK a \in Address : RemoveMember(a)
    BY <1>3
  <2>2. Len(members) \in Nat /\ DOMAIN members = 1..Len(members)
    BY LenProperties DEF FederationInv, FederationTypeOK
  <2>3. PICK k \in 1..Len(members) : members[k] = a
    BY <2>1, <2>2 DEF RemoveMember, FederationInv, MembersConsistent, Members, Elements
  <2>4. Len(members') = Len(members) - 1
    BY <2>1, <2>3, SwapAndPopRemoves DEF RemoveMember, FederationInv, FederationTypeOK, MembersConsistent
  <2> QED BY <2>2, <2>4
<1>4. CASE UNCHANGED <<members, votes>>
  BY <1>4 DEF Members
<1> QED BY <1>1, <1>2, <1>3, <1>4 DEF FederationNext, federationVars, ChangeRequirement, SetBridge

\* The vote that completes those of all present members is accepted; only a removal
\* can leave a transfer all have voted for unprocessed.
THEOREM LastVoteIsAccepted == FederationSpec => LastVoteAccepts
<1>1. FederationSpec => [][LastVoteStep]_federationVars
  BY FederationInductive, LastVoteInStep, PTL DEF FederationSpec
<1> QED BY <1>1 DEF LastVoteAccepts, LastVoteStep

-----------------------------------------------------------------------------
(* The two contracts together: each step is one of each, or leaves it alone. *)

SideInv == FederationInv /\ HonestVotes /\ BridgeInv

LEMMA SideInit == Init => FederationInit /\ BridgeInit
BY DEF Init

LEMMA FederationInSide == [Next]_vars => [FederationNext]_federationVars
<1> SUFFICES ASSUME [Next]_vars PROVE [FederationNext]_federationVars
  OBVIOUS
<1>1. CASE \E m \in Address, t \in Transfer : Vote(m, t)
  BY <1>1, SideAssumption DEF Vote, FederationNext
<1>2. CASE ChangeRoster
  BY <1>2 DEF ChangeRoster, FederationNext
<1>3. CASE Repoint
  BY <1>3 DEF Repoint, FederationNext
<1>4. (\E t \in Transfer : AcceptFromOther(t)) \/ Users \/ MapTokens \/ UNCHANGED vars => UNCHANGED federationVars
  BY DEF AcceptFromOther, Users, MapTokens, vars
<1> QED BY <1>1, <1>2, <1>3, <1>4 DEF Next

LEMMA BridgeInSide == [Next]_vars => [BridgeNext]_bridgeVars
<1> SUFFICES ASSUME [Next]_vars PROVE [BridgeNext]_bridgeVars
  OBVIOUS
<1>1. CASE \E m \in Address, t \in Transfer : Vote(m, t)
  BY <1>1, SideAssumption DEF Vote, BridgeNext
<1>2. CASE \E t \in Transfer : AcceptFromOther(t)
  BY <1>2 DEF AcceptFromOther, BridgeNext
<1>3. CASE ChangeRoster \/ UNCHANGED vars
  BY <1>3 DEF ChangeRoster, vars
<1>4. CASE Users
  BY <1>4 DEF Users, BridgeNext
<1>5. CASE Repoint
  BY <1>5 DEF Repoint, BridgeNext
<1>6. CASE MapTokens
  BY <1>6 DEF MapTokens, BridgeNext
<1> QED BY <1>1, <1>2, <1>3, <1>4, <1>5, <1>6 DEF Next

LEMMA SideInductive == Spec => []SideInv
<1>1. Init => SideInv
  BY SideInit, FederationInitInv, HonestInit, BridgeInitInv DEF SideInv
<1>2. SideInv /\ [Next]_vars => SideInv'
  BY FederationInSide, BridgeInSide, FederationStep, HonestStep, BridgeStep DEF SideInv
<1> QED BY <1>1, <1>2, PTL DEF Spec

-----------------------------------------------------------------------------
(* What the two records have to do with each other.                        *)

\* The bodies of RecordsAgree and AcceptedByMajority, as actions.
RecordsStep ==
  bridge = BRIDGE /\ federation = FEDERATION => processed' \ processed = Acceptances' \ Acceptances

AcceptedStep ==
  \A h \in Hash :
    accepted'[h] # accepted[h] /\ federation = FEDERATION =>
      /\ 2 * Cardinality(Approvers(votes', accepted'[h])) > Cardinality(Members)
      /\ accepted'[h] \in Genuine \/ DishonestReachThreshold

\* acceptTransfer adds its transfer, under a hash that had none.
LEMMA AcceptAdds ==
  ASSUME BridgeInv, NEW f, NEW t \in Transfer, AcceptTransfer(f, t)
  PROVE  /\ Acceptances' = Acceptances \cup {t} /\ t \notin Acceptances
         /\ t.hash \in Hash /\ accepted[t.hash] = NONE /\ accepted'[t.hash] = t
         /\ \A h \in Hash \ {t.hash} : accepted'[h] = accepted[h]
<1>1. t.hash \in Hash /\ t # NONE
  BY TransfersAre
<1>2. /\ accepted[t.hash] = NONE /\ accepted'[t.hash] = t
      /\ \A h \in Hash \ {t.hash} : accepted'[h] = accepted[h]
  BY <1>1 DEF AcceptTransfer, BridgeInv, Types, BridgeTypeOK
<1>3. t \notin Acceptances
  BY <1>1, <1>2 DEF Acceptances, BridgeInv, Kept, Paid
<1>4. Acceptances' = Acceptances \cup {t}
  BY <1>1, <1>2 DEF Acceptances
<1> QED BY <1>1, <1>2, <1>3, <1>4

LEMMA RecordsInStep == SideInv /\ [Next]_vars => RecordsStep
<1> SUFFICES ASSUME SideInv, [Next]_vars, bridge = BRIDGE, federation = FEDERATION
             PROVE  processed' \ processed = Acceptances' \ Acceptances
  BY DEF RecordsStep
<1>1. CASE \E m \in Address, t \in Transfer : Vote(m, t)
  <2>1. PICK m \in Address, t \in Transfer : Vote(m, t)
    BY <1>1
  <2>2. VoteTransaction(m, t) /\ t \notin processed
    BY <2>1 DEF Vote, VoteTransaction, IsProcessed
  <2>3. CASE t \in processed'
    <3>1. processed' \ processed = {t}
      BY <2>2, <2>3 DEF VoteTransaction
    <3>2. AcceptTransfer(FEDERATION, t)
      BY <2>1, <2>3 DEF Vote
    <3> QED BY <3>1, <3>2, AcceptAdds DEF SideInv
  <2>4. CASE t \notin processed'
    <3>1. processed' \ processed = {}
      BY <2>2, <2>4 DEF VoteTransaction
    <3>2. UNCHANGED accepted
      BY <2>1, <2>4 DEF Vote, bridgeVars
    <3> QED BY <3>1, <3>2 DEF Acceptances
  <2> QED BY <2>3, <2>4
<1>2. CASE UNCHANGED <<processed, accepted>>
  BY <1>2 DEF Acceptances
<1>3. ~ \E t \in Transfer : AcceptFromOther(t)
  BY DEF AcceptFromOther, AcceptTransfer
<1>4. CASE ChangeRoster \/ UNCHANGED vars
  BY <1>2, <1>4 DEF ChangeRoster, AddMember, RemoveMember, ChangeRequirement, vars, federationVars, bridgeVars
<1>5. CASE Users \/ MapTokens \/ Repoint
  <2>1. UNCHANGED accepted
    BY <1>5, AcceptedElsewhere DEF Users, MapTokens, Repoint, bridgeVars
  <2>2. UNCHANGED processed
    BY <1>5 DEF Users, MapTokens, Repoint, SetBridge, federationVars
  <2> QED BY <1>2, <2>1, <2>2
<1> QED BY <1>1, <1>3, <1>4, <1>5 DEF Next

\* While the contracts point at each other, a step marks as processed exactly what
\* it accepts, however different their ideas of identity.
THEOREM RecordsMoveTogether == Spec => RecordsAgree
<1>1. Spec => [][RecordsStep]_vars
  BY SideInductive, RecordsInStep, PTL DEF Spec
<1> QED BY <1>1 DEF RecordsAgree, RecordsStep

LEMMA AcceptedInStep == SideInv /\ HonestVotes' /\ [Next]_vars => AcceptedStep
<1> SUFFICES ASSUME SideInv, HonestVotes', [Next]_vars, federation = FEDERATION,
                    NEW h \in Hash, accepted'[h] # accepted[h]
             PROVE  /\ 2 * Cardinality(Approvers(votes', accepted'[h])) > Cardinality(Members)
                    /\ accepted'[h] \in Genuine \/ DishonestReachThreshold
  BY DEF AcceptedStep
<1>1. PICK m \in Address, t \in Transfer : Vote(m, t)
  <2>1. ~ \E t \in Transfer : AcceptFromOther(t)
    BY DEF AcceptFromOther, AcceptTransfer
  <2>2. ~ (ChangeRoster \/ UNCHANGED vars)
    BY DEF ChangeRoster, vars, bridgeVars
  <2>3. ~ (Users \/ MapTokens \/ Repoint)
    BY AcceptedElsewhere DEF Users, MapTokens, Repoint, bridgeVars
  <2> QED BY <2>1, <2>2, <2>3 DEF Next
<1>2. t \in processed' /\ AcceptTransfer(FEDERATION, t)
  BY <1>1 DEF Vote, bridgeVars
<1>3. accepted'[h] = t
  BY <1>2, AcceptAdds DEF SideInv
<1>4. t \in processed' \ processed
  BY <1>1, <1>2 DEF Vote, VoteTransaction, IsProcessed
<1>5. MajorityStep /\ NoForgedStep
  BY FederationInSide, MajorityInStep, NoForgedInStep DEF SideInv
<1> QED BY <1>3, <1>4, <1>5 DEF MajorityStep, NoForgedStep

\* What the bridge accepts from this federation has the votes of a majority of the
\* present members, and is genuine unless the dishonest ones reach the threshold.
THEOREM AcceptedOnlyByMajority == Spec => AcceptedByMajority
<1>1. Spec => [][AcceptedStep]_vars
  <2>1. SideInv' => HonestVotes'
    BY DEF SideInv
  <2> QED BY <2>1, SideInductive, AcceptedInStep, PTL DEF Spec
<1> QED BY <1>1 DEF AcceptedByMajority, AcceptedStep

-----------------------------------------------------------------------------
(* The contracts implement Settlement: promised is what is accepted, payee  *)
(* the receiver of the Claimed event, vault what the bridge holds.          *)

PayeeOf(t) ==
  IF accepted[t.hash] = t /\ PaidOf(t.hash) # {} THEN CHOOSE a \in PaidOf(t.hash) : TRUE ELSE NONE

Payees == [t \in Transfer |-> PayeeOf(t)]
Vaults == [tok \in Native |-> balance[tok][BRIDGE]]

LEMMA LogIndices ==
  ASSUME BridgeInv
  PROVE  Len(claimLog) \in Nat /\ DOMAIN claimLog = 1..Len(claimLog)
BY LenProperties DEF BridgeInv, Types, BridgeTypeOK

\* Whatever is accepted under a fresh hash has no payee yet.
LEMMA AcceptPromises ==
  ASSUME BridgeInv, NEW f, NEW t \in Transfer, AcceptTransfer(f, t)
  PROVE  Promises!Promise(t)
<1>1. /\ Acceptances' = Acceptances \cup {t} /\ t.hash \in Hash /\ accepted[t.hash] = NONE
      /\ \A h \in Hash \ {t.hash} : accepted'[h] = accepted[h]
  BY AcceptAdds
<1>2. UNCHANGED <<balance, claimLog>>
  BY DEF AcceptTransfer
<1>3. \A u \in Acceptances : u.hash # t.hash
  BY <1>1 DEF Acceptances, BridgeInv, Kept, Paid
<1>4. PaidOf(t.hash) = {}
  BY <1>1, LogIndices DEF PaidOf, BridgeInv, Kept, ClaimedOnceAsAccepted
<1>5. ASSUME NEW u \in Transfer PROVE PayeeOf(u)' = PayeeOf(u)
  <2>1. u.hash \in Hash
    BY TransfersAre
  <2>2. PaidOf(u.hash)' = PaidOf(u.hash)
    BY <1>2 DEF PaidOf
  <2>3. CASE u.hash = t.hash
    BY <1>4, <2>2, <2>3 DEF PayeeOf, PaidOf
  <2>4. CASE u.hash # t.hash
    BY <1>1, <2>1, <2>2, <2>4 DEF PayeeOf, PaidOf
  <2> QED BY <2>3, <2>4
<1>6. Payees' = Payees /\ Vaults' = Vaults
  BY <1>2, <1>5 DEF Payees, Vaults
<1> QED BY <1>1, <1>3, <1>6 DEF Promises!Promise, Acceptances, Payees, PayeeOf, Vaults

\* A claim pays its transfer, once, and takes from the vault what it is worth.
LEMMA SettlePays ==
  ASSUME BridgeInv, NEW c \in ClaimData, NEW receiver \in Account, NEW relayer \in Account, NEW fee \in Nat,
         Settle(c, receiver, relayer, fee), receiver \in {c.to, accepted[c.hash].from}
  PROVE  accepted[c.hash] \in Transfer /\ Promises!Pay(accepted[c.hash], receiver)
<1> DEFINE n == Len(claimLog)
<1>0. PICK t \in Transfer : t = accepted[c.hash]
  BY SettlesAccepted
<1>1. /\ t.hash = c.hash /\ t.to = c.to /\ c.hash \in Hash /\ UNCHANGED accepted
      /\ \A i \in 1..n : claimLog[i].hash # c.hash
  BY <1>0, SettlesAccepted
<1>2. Release(t, receiver, relayer, fee) \/ Mint(t, receiver, relayer, fee)
  BY <1>0 DEF Settle
<1>3. PICK e \in ClaimedEvent :
        /\ claimLog' = Append(claimLog, e)
        /\ e.hash = t.hash /\ e.receiver = receiver
        /\ ~e.minted => /\ e.token = t.token /\ e.token \in Token
                        /\ e.amount + e.fee = t.amount \div Scale[t.token]
                        /\ e.amount + e.fee <= balance[e.token][BRIDGE]
        /\ \A u \in Token :
             balance'[u][BRIDGE] = balance[u][BRIDGE] - IF u = e.token /\ ~e.minted THEN e.amount + e.fee ELSE 0
  BY <1>2, SettleMoves DEF BridgeInv
<1>4. /\ n \in Nat /\ DOMAIN claimLog = 1..n /\ DOMAIN claimLog' = 1..(n + 1)
      /\ claimLog'[n + 1] = e /\ \A i \in 1..n : claimLog'[i] = claimLog[i]
  <2>1. claimLog \in Seq(ClaimedEvent)
    BY LogsTyped DEF BridgeInv
  <2> QED BY <1>3, <2>1, AppendTyped, LenProperties
<1> HIDE DEF n
<1>5. PaidOf(t.hash) = {}
  BY <1>1, <1>4 DEF PaidOf
<1>6. PaidOf(t.hash)' = {receiver}
  <2>1. {j \in DOMAIN claimLog' : claimLog'[j].hash = t.hash} = {n + 1}
    BY <1>1, <1>3, <1>4
  <2> QED BY <1>1, <1>3, <1>4, <2>1 DEF PaidOf
<1>7. ASSUME NEW h, h # t.hash PROVE PaidOf(h)' = PaidOf(h)
  <2>1. {j \in DOMAIN claimLog' : claimLog'[j].hash = h} = {j \in DOMAIN claimLog : claimLog[j].hash = h}
    BY <1>3, <1>4, <1>7
  <2> QED BY <1>4, <2>1 DEF PaidOf
<1>8. t \in Acceptances /\ Acceptances' = Acceptances
  BY <1>0, <1>1, TransfersAre DEF Acceptances
<1>9. PayeeOf(t) = NONE
  BY <1>5 DEF PayeeOf
<1>10. PayeeOf(t)' = receiver
  <2>1. accepted'[t.hash] = t
    BY <1>0, <1>1
  <2> QED BY <1>1, <1>6, <2>1 DEF PayeeOf, PaidOf
<1>11. ASSUME NEW u \in Transfer, u # t PROVE PayeeOf(u)' = PayeeOf(u)
  <2>1. CASE u.hash = t.hash
    BY <1>0, <1>1, <1>11, <2>1 DEF PayeeOf
  <2>2. CASE u.hash # t.hash
    BY <1>1, <1>7, <2>2 DEF PayeeOf, PaidOf
  <2> QED BY <2>1, <2>2
<1>12. Payees[t] = NONE /\ Payees' = [Payees EXCEPT ![t] = receiver]
  BY <1>9, <1>10, <1>11 DEF Payees
<1>13. \/ Vaults' = Vaults
       \/ /\ t.token \in Native
          /\ t.amount \div Scale[t.token] <= Vaults[t.token]
          /\ Vaults' = [Vaults EXCEPT ![t.token] = @ - t.amount \div Scale[t.token]]
  <2>1. \A u \in Native : u \in Token /\ balance[u][BRIDGE] \in Int
    BY LogsTyped DEF BridgeInv, Token
  <2>2. CASE ~e.minted /\ t.token \in Native
    <3>1. t.amount \div Scale[t.token] <= Vaults[t.token]
      BY <1>3, <2>2 DEF Vaults
    <3>2. ASSUME NEW u \in Native
          PROVE  balance'[u][BRIDGE] = IF u = t.token THEN balance[u][BRIDGE] - t.amount \div Scale[t.token]
                                       ELSE balance[u][BRIDGE]
      BY <1>3, <2>1, <2>2
    <3>3. Vaults' = [Vaults EXCEPT ![t.token] = @ - t.amount \div Scale[t.token]]
      BY <2>2, <3>2 DEF Vaults
    <3> QED BY <2>2, <3>1, <3>3
  <2>3. CASE e.minted \/ t.token \notin Native
    <3>1. ASSUME NEW u \in Native PROVE balance'[u][BRIDGE] = balance[u][BRIDGE]
      BY <1>3, <2>1, <2>3
    <3> QED BY <3>1 DEF Vaults
  <2> QED BY <2>2, <2>3
<1>14. receiver \in {t.from, t.to}
  BY <1>0, <1>1
<1>15. Promises!Pay(t, receiver)
  BY <1>8, <1>12, <1>13, <1>14
     DEF Promises!Pay, Promises!Worth, Acceptances, Payees, PayeeOf, Vaults
<1> QED BY <1>0, <1>15

\* A crossing puts its amount less the fee into the vault, or burns it.
LEMMA CrossDeposits ==
  ASSUME BridgeInv, NEW tok \in Token, NEW a \in Account, NEW m \in Nat, NEW d \in Chain,
         NEW to \in {"receiver", "undefined"}, CrossTokens(tok, a, m, d, to)
  PROVE  UNCHANGED <<Acceptances, Payees, Vaults>> \/ \E u \in Native : Promises!Deposit(u)
<1>1. PICK e \in CrossEvent :
        \A u \in Token :
          balance'[u][BRIDGE] = balance[u][BRIDGE] + IF u = tok /\ ~e.burned THEN e.amount ELSE 0
  BY CrossMoves DEF BridgeInv
<1>2. UNCHANGED <<accepted, claimLog>>
  BY DEF CrossTokens
<1>3. UNCHANGED <<Acceptances, Payees>>
  BY <1>2 DEF Acceptances, Payees, PayeeOf, PaidOf
<1>4. \A u \in Native : u \in Token /\ balance[u][BRIDGE] \in Int
  BY LogsTyped DEF BridgeInv, Token
<1>5. CASE tok \in Native
  <2>1. Vaults'[tok] >= Vaults[tok]
    BY <1>1, <1>4, <1>5 DEF Vaults, CrossEvent
  <2>2. \A u \in Native : u # tok => Vaults'[u] = Vaults[u]
    BY <1>1, <1>4 DEF Vaults
  <2>3. Vaults' = [Vaults EXCEPT ![tok] = Vaults'[tok]]
    BY <1>5, <2>2 DEF Vaults
  <2> QED BY <1>3, <1>5, <2>1, <2>3 DEF Promises!Deposit, Acceptances, Payees, PayeeOf, Vaults
<1>6. CASE tok \notin Native
  BY <1>1, <1>3, <1>4, <1>6 DEF Vaults
<1> QED BY <1>5, <1>6

LEMMA PromisesKept == BridgeInv /\ [BridgeNext]_bridgeVars => [Promises!Next]_(Promises!vars)
<1> SUFFICES ASSUME BridgeInv, [BridgeNext]_bridgeVars PROVE [Promises!Next]_(Promises!vars)
  OBVIOUS
<1>1. UNCHANGED <<Acceptances, Payees, Vaults>> => UNCHANGED Promises!vars
  BY DEF Promises!vars, Acceptances, Payees, PayeeOf, Vaults
<1>2. CASE \E f \in Federations, t \in Transfer : AcceptTransfer(f, t)
  BY <1>2, AcceptPromises DEF Promises!Next
<1>3. CASE AnyClaim
  <2>1. PICK c \in ClaimData, receiver \in Account, relayer \in Account, fee \in Nat :
          Settle(c, receiver, relayer, fee) /\ receiver \in {c.to, accepted[c.hash].from}
    BY <1>3, AnyClaimIs DEF BridgeInv
  <2> DEFINE t == accepted[c.hash]
  <2>2. t \in Transfer /\ Promises!Pay(t, receiver)
    BY <2>1, SettlePays
  <2>3. receiver \in {t.from, t.to}
    BY <2>1, SettlesAccepted
  <2> QED BY <2>2, <2>3 DEF Promises!Next
<1>4. CASE AnyCross
  <2>1. PICK tok \in Token, a \in Account, m \in Nat, d \in Chain, to \in {"receiver", "undefined"} :
          CrossTokens(tok, a, m, d, to)
    BY <1>4, AnyCrossIs
  <2> QED BY <1>1, <2>1, CrossDeposits DEF Promises!Next
<1>5. CASE UNCHANGED <<accepted, claimLog, balance>>
  BY <1>1, <1>5 DEF Acceptances, Payees, PayeeOf, PaidOf, Vaults
<1>6. CASE \/ Administer \/ Remap \/ UNCHANGED bridgeVars
           \/ \E d \in Chain, tok \in Original, s \in Side : CreateSideToken(d, tok, s)
  BY <1>5, <1>6 DEF Administer, Remap, SetSideToken, SetOriginalToken, CreateSideToken, bridgeVars
<1> QED BY <1>2, <1>3, <1>4, <1>6 DEF BridgeNext

LEMMA PromisesInit == BridgeInit => Promises!Init
<1> SUFFICES ASSUME BridgeInit PROVE Promises!Init
  OBVIOUS
<1>1. Acceptances = {}
  BY DEF BridgeInit, Acceptances
<1>2. ASSUME NEW t \in Transfer PROVE PayeeOf(t) = NONE
  BY TransfersAre DEF PayeeOf, BridgeInit
<1>3. ASSUME NEW tok \in Native PROVE balance[tok][BRIDGE] = 0
  BY BridgeAssumption DEF BridgeInit, Token, Holder
<1>4. Payees = [t \in Transfer |-> NONE] /\ Vaults = [tok \in Native |-> 0]
  BY <1>2, <1>3 DEF Payees, Vaults
<1> QED BY <1>1, <1>4 DEF Promises!Init, Acceptances, Payees, PayeeOf, Vaults

\* The contracts together implement Settlement: one promise per hash, kept at most
\* once and to one of the two who may get it, for what the promise is worth.
THEOREM PromisesAreKept == Spec => KeepsPromises
<1>1. Init => Promises!Init
  BY SideInit, PromisesInit
<1>2. SideInv /\ [Next]_vars => [Promises!Next]_(Promises!vars)
  BY BridgeInSide, PromisesKept DEF SideInv
<1> QED BY <1>1, <1>2, SideInductive, PTL DEF Spec, KeepsPromises, Promises!Spec
=============================================================================
