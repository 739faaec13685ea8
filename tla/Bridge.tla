------------------------------- MODULE Bridge -------------------------------
(***************************************************************************)
(* The Bridge contract (bridge/contracts/Bridge/Bridge.sol), with the      *)
(* balances it moves.  Tokens deployed on this chain (Native) are locked   *)
(* when they cross and released when a transfer back is claimed; tokens of *)
(* the other chains (Remote addresses) are represented here by side tokens *)
(* that are minted by a claim and burned when they cross back.             *)
(*                                                                         *)
(* One external function is one atomic action; a revert is a disabled      *)
(* action.  The block hash, which the federators derive from the           *)
(* transaction hash, is merged with it.  The network currency and its      *)
(* wrapped token are one token, so depositTo is ReceiveTokensTo for it.    *)
(* The maps named deprecated... are empty in a deployment of this version. *)
(* The limits of AllowTokens, which can only make a crossing revert, are   *)
(* in their own module.                                                    *)
(***************************************************************************)
EXTENDS Integers, Sequences, FiniteSets

CONSTANTS
  Account,     \* users and relayers
  BRIDGE,      \* the contract's own address
  OWNER,       \* the multisig wallet that owns the contract and gets the fees
  Native,      \* tokens deployed on this chain
  Side,        \* addresses of the side tokens the factory creates
  Remote,      \* addresses that stand for the tokens of other chains
  Chain,       \* ids of the other chains
  Scale,       \* token => 10^(18 - decimals)
  Granularity, \* side token => its granularity
  Federations, \* federation contracts the owner may choose
  Transfer,    \* argument tuples of acceptTransfer
  LegacyClaimed, \* data hashes claimed under an older version
  NONE,        \* an empty storage slot
  feePercentageDivider, \* 10000 in the code
  InitialBalance, \* what each account owns of each native token
  CrossAmounts,   \* amounts users cross (bound)
  FeePercentages, \* values the owner gives setFeePercentage (bound)
  RelayerFees,    \* fees users sign in claimGasless (bound)
  MAX_CROSS       \* crossings considered (bound)

Holder == Account \cup {BRIDGE, OWNER}
Token == Native \cup Side
Original == Native \cup Remote
Hash == {t.hash : t \in Transfer}

ASSUME BridgeAssumption ==
  /\ Transfer \subseteq [hash : Hash, token : Original, from : Account, to : Account,
                         amount : Nat \ {0}, log : Nat, origin : Chain]
  /\ Scale \in [Token -> Nat \ {0}]
  /\ Granularity \in [Side -> Nat \ {0}]
  /\ NONE \notin Transfer \cup Side \cup (Chain \X Original)
  /\ BRIDGE \notin Account /\ OWNER \notin Account /\ BRIDGE # OWNER
  /\ feePercentageDivider \in Nat \ {0}
  /\ RelayerFees \subseteq Nat /\ FeePercentages \subseteq Nat /\ CrossAmounts \subseteq Nat
  /\ InitialBalance \in Nat

VARIABLES
  federation,     \* the contract that may call acceptTransfer
  paused, isUpgrading, feePercentage,
  known,          \* knownTokenByChain: pairs <<chain, token>>
  sideToken,      \* sideTokenByOriginalTokenByChain
  original,       \* originalTokenBySideToken
  remapped,       \* has the owner edited one of these two maps by hand?
  accepted,       \* hash => the transfer in transactionsDataHashes,
                  \* originalTokenAddresses and senderAddresses
  claimed,        \* data hashes
  balance,        \* token => holder => amount
  crossLog,       \* the Cross events
  claimLog        \* the Claimed events

adminVars == <<federation, paused, isUpgrading, feePercentage>>
tokenVars == <<known, sideToken, original, remapped>>
bridgeVars == <<adminVars, tokenVars, accepted, claimed, balance, crossLog, claimLog>>

\* getTransactionDataHash, and its form without chain ids.
DataHash(t) == [hash |-> t.hash, to |-> t.to, amount |-> t.amount,
                log |-> t.log, origin |-> t.origin]
LegacyDataHash(t) == [hash |-> t.hash, to |-> t.to, amount |-> t.amount, log |-> t.log]

ClaimData == {DataHash(t) : t \in Transfer}

BridgeTypeOK ==
  /\ federation \in Federations
  /\ paused \in BOOLEAN /\ isUpgrading \in BOOLEAN
  /\ feePercentage \in Nat
  /\ known \subseteq Chain \X Token
  /\ sideToken \in [Chain \X Original -> Side \cup {NONE}]
  /\ original \in [Side -> (Chain \X Original) \cup {NONE}]
  /\ remapped \in BOOLEAN
  /\ accepted \in [Hash -> Transfer \cup {NONE}]
  /\ claimed \subseteq ClaimData \cup LegacyClaimed
  /\ balance \in [Token -> [Holder -> Nat]]
  /\ crossLog \in Seq([token : Original \cup Side, burned : BOOLEAN, dest : Chain,
                       to : {"receiver", "undefined"}, amount : Nat])
  /\ claimLog \in Seq([hash : Hash, token : Token, minted : BOOLEAN,
                       receiver : Account, amount : Nat, relayer : Account, fee : Nat])

BridgeInit ==
  /\ federation \in Federations
  /\ paused = FALSE /\ isUpgrading = FALSE
  /\ feePercentage = 0
  /\ known = {}
  /\ sideToken = [p \in Chain \X Original |-> NONE]
  /\ original = [s \in Side |-> NONE]
  /\ remapped = FALSE
  /\ accepted = [h \in Hash |-> NONE]
  /\ claimed = LegacyClaimed
  /\ balance = [tok \in Token |-> [a \in Holder |->
                  IF tok \in Native /\ a \in Account THEN InitialBalance ELSE 0]]
  /\ crossLog = <<>>
  /\ claimLog = <<>>

-----------------------------------------------------------------------------
(* Transfers from the other chains.                                        *)

\* Fault: only claims of the older version are looked up.
IsClaimedOfOld(t) == LegacyDataHash(t) \in claimed

IsClaimed(t) == DataHash(t) \in claimed \/ LegacyDataHash(t) \in claimed

Known(t) == <<t.origin, t.token>> \in known

SideTokenOf(t) == sideToken[<<t.origin, t.token>>]

\* Fault: "Bridge: Unknown token" is not checked.
AcceptUnknownToken(sender, t) ==
  /\ ~paused
  /\ sender = federation
  /\ accepted[t.hash] = NONE
  /\ ~IsClaimed(t)
  /\ accepted' = [accepted EXCEPT ![t.hash] = t]
  /\ UNCHANGED <<adminVars, tokenVars, claimed, balance, crossLog, claimLog>>

AcceptTransfer(sender, t) ==
  /\ ~paused
  /\ sender = federation
  /\ Known(t) \/ SideTokenOf(t) # NONE
  /\ accepted[t.hash] = NONE
  /\ ~IsClaimed(t)
  /\ accepted' = [accepted EXCEPT ![t.hash] = t]
  /\ UNCHANGED <<adminVars, tokenVars, claimed, balance, crossLog, claimLog>>

\* The token's contract: its balances after n more for a.
Credit(balances, a, n) == [balances EXCEPT ![a] = @ + n]

\* _claimCrossBackToToken: the escrowed token, in its own decimals.
Release(t, receiver, relayer, fee) ==
  LET out == t.amount \div Scale[t.token] IN
  /\ Known(t)
  /\ fee <= out
  /\ out <= balance[t.token][BRIDGE]
  /\ balance' = [balance EXCEPT ![t.token] =
                   Credit(Credit(Credit(@, BRIDGE, -out), receiver, out - fee), relayer, fee)]
  /\ claimLog' = Append(claimLog, [hash |-> t.hash, token |-> t.token, minted |-> FALSE,
                    receiver |-> receiver, amount |-> out - fee, relayer |-> relayer, fee |-> fee])

\* _claimCrossToSideToken
Mint(t, receiver, relayer, fee) ==
  LET s == SideTokenOf(t)
      out == t.amount * Granularity[s] IN
  /\ ~Known(t)
  /\ s # NONE
  /\ fee <= out
  /\ balance' = [balance EXCEPT ![s] = Credit(Credit(@, receiver, out - fee), relayer, fee)]
  /\ claimLog' = Append(claimLog, [hash |-> t.hash, token |-> s, minted |-> TRUE,
                    receiver |-> receiver, amount |-> out - fee, relayer |-> relayer, fee |-> fee])

(* _claim: anyone presents the data c; no pause stops it.                  *)
Settle(c, receiver, relayer, fee) ==
  LET t == accepted[c.hash] IN
  /\ t # NONE
  /\ DataHash(t) = c
  /\ ~IsClaimed(t)
  /\ claimed' = claimed \cup {c}
  /\ Release(t, receiver, relayer, fee) \/ Mint(t, receiver, relayer, fee)
  /\ UNCHANGED <<adminVars, tokenVars, accepted, crossLog>>

Claim(c) == Settle(c, c.to, c.to, 0)

\* Who sent the tokens on the other chain takes them here.
ClaimFallback(caller, c) ==
  /\ accepted[c.hash] # NONE
  /\ caller = accepted[c.hash].from
  /\ Settle(c, caller, caller, 0)

\* The receiver signed a fee for the relayer.  Each signature carries the
\* receiver's nonce, so it is good for one call; the deadline and the nonce
\* only make calls revert.
ClaimGasless(c, relayer, fee) == Settle(c, c.to, relayer, fee)

-----------------------------------------------------------------------------
(* crossTokens: tok goes to chain dest; the net amount is locked, or burned *)
(* if tok is a side token, and the fee goes to the owner.                  *)
Fee(tok, amount) ==
  LET percent == (amount * feePercentage) \div feePercentageDivider
      rest == IF tok \in Side /\ original[tok] # NONE
              THEN (amount - percent) % Granularity[tok] ELSE 0
  IN percent + rest

\* Fault: the event announces the amount before fees.
CrossAnnouncingGross(tok, sender, amount, dest, to) ==
  LET fee == Fee(tok, amount)
      isSide == tok \in Side /\ original[tok] # NONE IN
  /\ ~isUpgrading /\ ~paused
  /\ balance[tok][sender] >= amount
  /\ Len(crossLog) < MAX_CROSS
  /\ known' = known \cup {<<dest, tok>>}
  /\ balance' = [balance EXCEPT ![tok] = Credit(Credit(Credit(@, sender, -amount), OWNER, fee),
                                                BRIDGE, IF isSide THEN 0 ELSE amount - fee)]
  /\ crossLog' = Append(crossLog,
       [token |-> IF isSide THEN original[tok][2] ELSE tok, burned |-> isSide,
        dest |-> dest, to |-> to, amount |-> amount])
  /\ UNCHANGED <<adminVars, sideToken, original, remapped, accepted, claimed, claimLog>>

CrossTokens(tok, sender, amount, dest, to) ==
  LET fee == Fee(tok, amount)
      net == amount - fee
      isSide == tok \in Side /\ original[tok] # NONE IN
  /\ ~isUpgrading /\ ~paused
  /\ balance[tok][sender] >= amount
  /\ Len(crossLog) < MAX_CROSS
  /\ known' = known \cup {<<dest, tok>>}
  /\ balance' = [balance EXCEPT ![tok] = Credit(Credit(Credit(@, sender, -amount), OWNER, fee),
                                                BRIDGE, IF isSide THEN 0 ELSE net)]
  /\ crossLog' = Append(crossLog,
       [token |-> IF isSide THEN original[tok][2] ELSE tok, burned |-> isSide,
        dest |-> dest, to |-> to, amount |-> net])
  /\ UNCHANGED <<adminVars, sideToken, original, remapped, accepted, claimed, claimLog>>

ReceiveTokensTo(tok, sender, amount, dest) ==
  CrossTokens(tok, sender, amount, dest, "receiver")

\* An ERC777 token (side tokens are) is sent to the bridge: the hook crosses
\* it for the receiver "undefined", whatever the sender put in userData.
TokensReceived(tok, sender, amount, dest) ==
  /\ tok \in Side
  /\ CrossTokens(tok, sender, amount, dest, "undefined")

-----------------------------------------------------------------------------
(* The owner.                                                              *)

CreateSideToken(chain, tok, s) ==
  /\ sideToken[<<chain, tok>>] = NONE
  /\ original[s] = NONE /\ \A p \in DOMAIN sideToken : sideToken[p] # s  \* a new address
  /\ sideToken' = [sideToken EXCEPT ![<<chain, tok>>] = s]
  /\ original' = [original EXCEPT ![s] = <<chain, tok>>]
  /\ UNCHANGED <<adminVars, known, remapped, accepted, claimed, balance, crossLog, claimLog>>

SetSideToken(chain, tok, s) ==
  /\ sideToken' = [sideToken EXCEPT ![<<chain, tok>>] = s]
  /\ UNCHANGED <<adminVars, known, original, accepted, claimed, balance, crossLog, claimLog>>

SetOriginalToken(s, p) ==
  /\ original' = [original EXCEPT ![s] = p]
  /\ UNCHANGED <<adminVars, known, sideToken, accepted, claimed, balance, crossLog, claimLog>>

SetFeePercentage(f) ==
  /\ f < feePercentageDivider \div 10
  /\ feePercentage' = f
  /\ UNCHANGED <<federation, paused, isUpgrading>>

ChangeFederation(f) ==
  /\ federation' = f
  /\ UNCHANGED <<paused, isUpgrading, feePercentage>>

SetUpgrading(b) ==
  /\ isUpgrading' = b
  /\ UNCHANGED <<federation, paused, feePercentage>>

Pause ==
  /\ ~paused /\ paused' = TRUE
  /\ UNCHANGED <<federation, isUpgrading, feePercentage>>

Unpause ==
  /\ paused /\ paused' = FALSE
  /\ UNCHANGED <<federation, isUpgrading, feePercentage>>

Administer ==
  /\ \/ \E f \in FeePercentages : SetFeePercentage(f)
     \/ \E f \in Federations : ChangeFederation(f)
     \/ \E b \in BOOLEAN : SetUpgrading(b)
     \/ Pause
     \/ Unpause
  /\ UNCHANGED <<tokenVars, accepted, claimed, balance, crossLog, claimLog>>

-----------------------------------------------------------------------------
AnyClaim ==
  \E c \in ClaimData :
    \/ Claim(c)
    \/ \E a \in Account : ClaimFallback(a, c)
    \/ \E a \in Account, fee \in RelayerFees : ClaimGasless(c, a, fee)

AnyCross ==
  \E tok \in Token, a \in Account, n \in CrossAmounts, d \in Chain :
    ReceiveTokensTo(tok, a, n, d) \/ TokensReceived(tok, a, n, d)

Remap ==
  /\ \/ \E d \in Chain, tok \in Original, s \in Side \cup {NONE} : SetSideToken(d, tok, s)
     \/ \E s \in Side, p \in (Chain \X Original) \cup {NONE} : SetOriginalToken(s, p)
  /\ remapped' = TRUE

BridgeNext ==
  \/ \E f \in Federations, t \in Transfer : AcceptTransfer(f, t)
  \/ AnyClaim
  \/ AnyCross
  \/ \E d \in Chain, tok \in Original, s \in Side : CreateSideToken(d, tok, s)
  \/ Administer
  \/ Remap

BridgeSpec == BridgeInit /\ [][BridgeNext]_bridgeVars

-----------------------------------------------------------------------------
(* Properties.                                                             *)

SumOf(log, Amount(_), Chosen(_)) ==
  LET sum[i \in 0..Len(log)] ==
        IF i = 0 THEN 0
        ELSE sum[i - 1] + IF Chosen(log[i]) THEN Amount(log[i]) ELSE 0
  IN sum[Len(log)]

LockedIn(log, tok) == SumOf(log, LAMBDA e : e.amount, LAMBDA e : e.token = tok /\ ~e.burned)
ReleasedIn(log, tok) == SumOf(log, LAMBDA e : e.amount + e.fee, LAMBDA e : e.token = tok /\ ~e.minted)

Locked(tok) == LockedIn(crossLog, tok)
Released(tok) == ReleasedIn(claimLog, tok)

\* What the bridge holds of a token is what its Cross events announced minus
\* what claims released: fees, rounding to the granularity, relayer fees and
\* the order of crossings and claims leave nothing behind and take nothing
\* more.  (Of a side token it holds nothing between calls.)
EscrowExact ==
  \A tok \in Token : balance[tok][BRIDGE] = Locked(tok) - Released(tok)

\* One Claimed event per transaction hash, for the transfer accepted under
\* that hash, paid to its receiver or its sender: whatever the way of
\* claiming, a change of federation, or data that differ in one field.
ClaimedOnceAsAccepted ==
  /\ \A i, j \in 1..Len(claimLog) : claimLog[i].hash = claimLog[j].hash => i = j
  /\ \A i \in 1..Len(claimLog) :
       LET e == claimLog[i]
           t == accepted[e.hash] IN
       /\ t # NONE
       /\ e.receiver \in {t.to, t.from}
       /\ e.fee > 0 => e.receiver = t.to

\* As long as the owner edits neither map by hand, what was accepted can be paid,
\* even if its token became known after the acceptance, and what is paid in a side
\* token can cross back: the two maps lead there and back.
AcceptedPayable ==
  ~remapped =>
    \A h \in Hash :
      LET t == accepted[h]
          s == SideTokenOf(t) IN
      t # NONE => \/ Known(t)
                  \/ s # NONE /\ original[s] = <<t.origin, t.token>>
=============================================================================
