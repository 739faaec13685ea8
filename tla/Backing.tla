------------------------------- MODULE Backing -------------------------------
(***************************************************************************)
(* Does what circulates on one side have its counterpart on the other?     *)
(*                                                                         *)
(* Both directions at once, with their amounts: the Cross events of the    *)
(* bridge, the maps of tokens the owners write (addHathorToken), the       *)
(* transactions the wallet builds for the brokers out of its coins, what   *)
(* validateTx compares at the proposal, at each signature and at the push, *)
(* the melts, the votes and the claims.  The protocol around a proposal is *)
(* HathorMultisig's, that around a vote EvmVoting's: here each of their    *)
(* steps that looks at tokens and amounts is one action, done once.        *)
(*                                                                         *)
(* Amounts have as many digits after the point as in the code (2 on        *)
(* Hathor, 18 in votes), in base Base.                                     *)
(***************************************************************************)
EXTENDS Integers, FiniteSets, Functions

CONSTANTS
  Federators, Threshold,    \* who signs and votes; how many it takes
  Outward, Event, Index,    \* crossings to Hathor: what their Cross event
                            \* says, and its place in the EVM transaction
  Inward, Uid, Outputs,     \* deposits on Hathor: their token, their outputs
  Native, Decimals,         \* EVM tokens and their decimals
  Pseudo,                   \* addresses that stand for tokens of Hathor
  Uids, Reps,               \* tokens of Hathor; those the wallet may mint and melt
  FirstMap, Remaps,         \* calls of addHathorToken: at first, later
  Circulating,              \* what users hold of each token of Hathor at first
  Base

None == "none"
Evm == 1
Hathor == 2
Mappings == [chain : {Evm, Hathor}, token : Native \cup Pseudo, uid : Uids]

ASSUME PartiesAssumption == Threshold \in 1..Cardinality(Federators)
ASSUME TokensAssumption ==
  /\ Base \in Nat /\ Base > 1 /\ Decimals \in [Native -> 0..18]
  /\ Native \cap Pseudo = {} /\ None \notin Native \cup Pseudo \cup Uids /\ Reps \subseteq Uids
  /\ FirstMap \subseteq Mappings /\ Remaps \subseteq Mappings
  /\ \A m, n \in FirstMap : m # n => m.token # n.token /\ m.uid # n.uid
\* Every crossing is of something, and to a user; no coin has the number 0.
ASSUME CrossingsAssumption ==
  /\ Outward \cap Inward = {}
  /\ \A c \in Outward :
       /\ Event[c].amount \in Nat \ {0} /\ Event[c].token \in Native \cup Pseudo
       /\ Event[c].to # "wallet" /\ Event[c] \notin Inward /\ Index[c] \in Nat
  /\ \A c \in Inward :
       /\ Uid[c] \in Uids /\ DOMAIN Outputs[c] # {} /\ DOMAIN Outputs[c] \subseteq Nat \ {0}
       /\ \A n \in DOMAIN Outputs[c] : Outputs[c][n].value \in Nat \ {0}
\* Whatever is added up is finite.  What stands for an EVM token is made by the
\* wallet: nobody has any of it before it is mapped.
ASSUME SupplyAssumption ==
  /\ IsFiniteSet(Outward) /\ IsFiniteSet(Inward) /\ IsFiniteSet(Uids)
  /\ \A c \in Inward : IsFiniteSet(DOMAIN Outputs[c])
  /\ Circulating \in [Uids -> Nat]
  /\ \A m \in FirstMap \cup Remaps : m.chain = Evm => Circulating[m.uid] = 0

VARIABLES
  toHathor, toEvm, remaps,    \* EvmToHathorTokenMap, HathorToEvmTokenMap; calls made
  escrow, minted,             \* of the bridge; of the side tokens
  mined, accepted, claimed,   \* Cross events; deposits accepted, and claimed
  wallet, held,               \* coins of the multisig wallet; what users hold
  deposited, ballots,         \* deposits made; votes for them
  proposals, signed, settled  \* transactions proposed; who signed; those on Hathor
maps == <<toHathor, toEvm, remaps>>
bridge == <<escrow, minted, mined, accepted, claimed>>
hathor == <<wallet, held, deposited>>
multisig == <<proposals, signed, settled>>
vars == <<maps, bridge, hathor, ballots, multisig>>

Value(S) == SumFunction([x \in S |-> x.value])
Of(S, u) == {x \in S : x.uid = u}

\* The coins a deposit makes.
Coins(c) == {[of |-> c, n |-> n, uid |-> Uid[c], value |-> Outputs[c][n].value,
              locked |-> Outputs[c][n].locked] : n \in DOMAIN Outputs[c]}

TypeOK ==
  /\ toHathor \in [Native \cup Pseudo -> Uids \cup {None}] /\ remaps \subseteq Remaps
  /\ DOMAIN toEvm = Uids \cup {None}
  /\ escrow \in [Native -> Nat] /\ minted \in [Pseudo -> Nat] /\ held \in [Uids -> Nat]
  /\ mined \subseteq Outward /\ deposited \subseteq Inward /\ claimed \subseteq Inward
  /\ DOMAIN accepted = Inward
  /\ \A k \in wallet : k.value \in Nat \ {0} /\ k.uid \in Uids
  /\ settled \subseteq {p.id : p \in proposals} /\ DOMAIN signed = {p.id : p \in proposals}

Unmapped == [chain |-> 0, token |-> None]

Init ==
  /\ toHathor = [t \in Native \cup Pseudo |->
       IF \E m \in FirstMap : m.token = t THEN (CHOOSE m \in FirstMap : m.token = t).uid ELSE None]
  /\ toEvm = [u \in Uids \cup {None} |->
       IF \E m \in FirstMap : m.uid = u
       THEN LET m == CHOOSE x \in FirstMap : x.uid = u IN [chain |-> m.chain, token |-> m.token]
       ELSE Unmapped]
  /\ remaps = {}
  /\ escrow = [t \in Native |-> 0] /\ minted = [t \in Pseudo |-> 0]
  /\ mined = {} /\ accepted = [c \in Inward |-> Unmapped] /\ claimed = {}
  /\ wallet = {} /\ held = Circulating /\ deposited = {}
  /\ ballots = {} /\ proposals = {} /\ signed = [i \in {} |-> {}] /\ settled = {}

-----------------------------------------------------------------------------
(* Amounts *)

Power[n \in 0..18] == IF n = 0 THEN 1 ELSE Base * Power[n - 1]

\* Fault: one digit too many is kept.
KeepDigit(q, dec) == IF dec > 3 THEN q \div Power[dec - 3] ELSE q

\* The digits beyond the second are cut off, and none are added.  Nothing left: a
\* HathorException.
ToHathor(q, dec) == IF dec > 2 THEN q \div Power[dec - 2] ELSE q

ToEvm(q) == q * Power[16]

\* In the bridge, at the claim.
FromEvm(q, dec) == q \div Power[18 - dec]

-----------------------------------------------------------------------------
(* What the brokers read in the maps *)

IsEvmNative(u) == toEvm[u].chain = Evm

\* A side token has 18; a contract there must be.
HasDecimals(t, chain) == t \in IF chain = Hathor THEN Pseudo ELSE Native
DecimalsOf(t, chain) == IF chain = Hathor THEN 18 ELSE Decimals[t]

\* The token of Hathor and the amount that a Cross event is worth, if it is any.
Target(e) == toHathor[e.token]
ByMint(e) == IsEvmNative(Target(e))
Worth(e) ==
  LET chain == toEvm[Target(e)].chain IN
  IF HasDecimals(e.token, chain) THEN ToHathor(e.amount, DecimalsOf(e.token, chain)) ELSE 0

\* The contract's id hashes what the event says and the type of transaction,
\* which the maps decide.
OutwardId(c) == [of |-> Event[c], type |-> IF ByMint(Event[c]) THEN "mint" ELSE "transfer"]
InwardId(c) == [of |-> c, type |-> "melt"]

Proposed(id) == \E p \in proposals : p.id = id

-----------------------------------------------------------------------------
(* validateTx *)

\* Fault: inputs are not taken off.
BalanceOut(p, u) == Value(Of(p.outputs, u))

\* getTransactionInfo: what the transaction adds to the supply of a token.
Balance(p, u) == Value(Of(p.outputs, u)) - Value(Of(p.inputs, u))

\* Fault: the last one.
LastEvent(c, p) ==
  /\ Event[c].tx = p.id.of.tx
  /\ \A d \in mined : Event[d].tx = p.id.of.tx => Index[d] <= Index[c]

\* The first Cross event of the EVM transaction.
FirstEvent(c, p) ==
  /\ Event[c].tx = p.id.of.tx
  /\ \A d \in mined : Event[d].tx = p.id.of.tx => Index[c] <= Index[d]

\* validateTokensOutput
NothingElseLeaves(p, u) == \A o \in p.outputs : o.uid # u => o.to = "wallet"

CanMint(p, u) == u \in p.mints
CanMelt(p, u) == u \in p.melts
PaidTo(p, u, to) == Value({o \in Of(p.outputs, u) : o.to = to})

\* EvmBroker
Fits(p, e, u) ==
  /\ Worth(e) > 0
  /\ NothingElseLeaves(p, u)
  /\ IF ByMint(e) THEN CanMint(p, u) /\ Balance(p, u) = Worth(e)
     ELSE Balance(p, u) = 0 /\ PaidTo(p, u, e.to) = Worth(e)

ValidOutward(p) == \E c \in mined : FirstEvent(c, p) /\ Fits(p, Event[c], Target(Event[c]))

\* Broker.getCustomTokenData: outputs that are neither spent nor locked.
Unspent(c) == {k \in Coins(c) : k \in wallet /\ ~k.locked}

\* HathorBroker
ValidInward(p) ==
  \E c \in {p.id.of} :
    /\ p.id \notin settled
    /\ Unspent(c) # {}
    /\ CanMelt(p, Uid[c])
    /\ Balance(p, Uid[c]) < 0
    /\ -Balance(p, Uid[c]) = Value(Unspent(c))

Valid(p) == IF p.id.type = "melt" THEN ValidInward(p) ELSE ValidOutward(p)

-----------------------------------------------------------------------------
(* The wallet builds a transaction (external) *)

\* Inputs of a proposal that can still be signed are kept marked; the marks of
\* others expire.
Marked == UNION {p.inputs : p \in {q \in proposals : q.id \notin settled /\ Valid(q)}}
Free(u) == {k \in wallet \ Marked : k.uid = u /\ ~k.locked}

\* Coins that suffice, none of them in excess.
Selections(u, q) ==
  {S \in SUBSET Free(u) : Value(S) >= q /\ \A k \in S : Value(S \ {k}) < q}

Change(S, u, q) ==
  IF Value(S) = q THEN {} ELSE {[uid |-> u, value |-> Value(S) - q, to |-> "wallet"]}
Pay(to, u, q) == {[uid |-> u, value |-> q, to |-> to]}
Tx(id, inputs, outputs) == [id |-> id, inputs |-> inputs, outputs |-> outputs, mints |-> {}, melts |-> {}]

\* EvmBroker.sendEvmNativeTokenProposal
Mints(c, e, u) ==
  {[Tx(OutwardId(c), {}, Pay(e.to, u, Worth(e))) EXCEPT !.mints = {h}] : h \in Reps \cap {u}}

\* EvmBroker.sendHathorNativeTokenProposal
Transfers(c, e, u) ==
  {Tx(OutwardId(c), S, Pay(e.to, u, Worth(e)) \cup Change(S, u, Worth(e))) : S \in Selections(u, Worth(e))}

\* HathorTx.getCustomTokenData: all the outputs, whatever became of them.
Total(c) == Value(Coins(c))

\* HathorBroker.sendEvmNativeTokenProposal
Melts(c, u) ==
  {[Tx(InwardId(c), S, Change(S, u, Total(c))) EXCEPT !.melts = {u}]
     : S \in IF u \in Reps THEN Selections(u, Total(c)) ELSE {}}

Buildable(c) ==
  IF c \in Inward THEN Melts(c, Uid[c])
  ELSE IF Worth(Event[c]) = 0 THEN {}
  ELSE IF ByMint(Event[c]) THEN Mints(c, Event[c], Target(Event[c]))
  ELSE Transfers(c, Event[c], Target(Event[c]))

-----------------------------------------------------------------------------
(* Users and owners *)

\* One EVM transaction, with its Cross events.
Cross(tx) ==
  LET C == {c \in Outward : Event[c].tx = tx}
      Sent(t) == SumFunction([c \in {x \in C : Event[x].token = t} |-> Event[c].amount])
  IN
  /\ C # {} /\ C \cap mined = {}
  /\ \A t \in Pseudo : Sent(t) <= minted[t]
  /\ mined' = mined \cup C
  /\ escrow' = [t \in Native |-> escrow[t] + Sent(t)]
  /\ minted' = [t \in Pseudo |-> minted[t] - Sent(t)]
  /\ UNCHANGED <<maps, accepted, claimed, hathor, ballots, multisig>>

Deposit(c) ==
  /\ c \notin deposited /\ held[Uid[c]] >= Total(c)
  /\ deposited' = deposited \cup {c}
  /\ wallet' = wallet \cup Coins(c)
  /\ held' = [held EXCEPT ![Uid[c]] = @ - Total(c)]
  /\ UNCHANGED <<maps, bridge, ballots, multisig>>

AddHathorToken(m) ==
  /\ m \in Remaps \ remaps
  /\ remaps' = remaps \cup {m}
  /\ toHathor' = [toHathor EXCEPT ![m.token] = m.uid]
  /\ toEvm' = [toEvm EXCEPT ![m.uid] = [chain |-> m.chain, token |-> m.token]]
  /\ UNCHANGED <<bridge, hathor, ballots, multisig>>

Claim(c) ==
  LET b == accepted[c] IN
  /\ b # Unmapped /\ c \notin claimed
  /\ claimed' = claimed \cup {c}
  /\ \/ /\ b.token \in Native
        /\ escrow[b.token] >= FromEvm(b.amount, Decimals[b.token])
        /\ escrow' = [escrow EXCEPT ![b.token] = @ - FromEvm(b.amount, Decimals[b.token])]
        /\ UNCHANGED minted
     \/ /\ b.token \in Pseudo
        /\ minted' = [minted EXCEPT ![b.token] = @ + b.amount]
        /\ UNCHANGED escrow
  /\ UNCHANGED <<maps, mined, accepted, hathor, ballots, multisig>>

-----------------------------------------------------------------------------
(* The federators *)

\* sendTokens of the first federator, up to the proposal.
Propose(c) ==
  /\ \/ c \in mined
     \/ c \in deposited /\ IsEvmNative(Uid[c])
  /\ ~Proposed(IF c \in Inward THEN InwardId(c) ELSE OutwardId(c))
  /\ \E p \in Buildable(c) :
       /\ Valid(p)
       /\ proposals' = proposals \cup {p}
       /\ signed' = [i \in DOMAIN signed \cup {p.id} |-> IF i = p.id THEN {} ELSE signed[i]]
  /\ UNCHANGED <<maps, bridge, hathor, ballots, settled>>

Sign(f, p) ==
  /\ p.id \notin settled /\ f \notin signed[p.id] /\ Valid(p)
  /\ signed' = [signed EXCEPT ![p.id] = @ \cup {f}]
  /\ UNCHANGED <<maps, bridge, hathor, ballots, proposals, settled>>

Ready(p) == p.id \notin settled /\ Cardinality(signed[p.id]) >= Threshold

Acceptable(p) == Ready(p) /\ Valid(p) /\ p.inputs \subseteq wallet

Push(p) ==
  /\ Acceptable(p)
  /\ settled' = settled \cup {p.id}
  /\ wallet' = (wallet \ p.inputs) \cup
       {[of |-> p.id, n |-> 0, uid |-> o.uid, value |-> o.value, locked |-> FALSE]
          : o \in {x \in p.outputs : x.to = "wallet"}}
  /\ held' = [u \in Uids |-> held[u] + Value({o \in Of(p.outputs, u) : o.to # "wallet"})]
  /\ UNCHANGED <<maps, bridge, deposited, ballots, proposals, signed>>

\* Fault: those of this chain are forgotten.
KnownSide(t) == t \in Pseudo

\* The bridge knows the tokens that crossed, and its side tokens.
Known(t) == t \in Pseudo \/ \E c \in mined : Event[c].token = t

\* voteOnEvm, after the melt, or at once for a token native to Hathor.  The vote
\* that suffices makes the bridge accept, once for each transaction hash.
Vote(f, c) ==
  LET b == [token |-> toEvm[Uid[c]].token, amount |-> ToEvm(Total(c))]
      enough == Cardinality({g \in Federators : <<g, c, b>> \in ballots} \cup {f}) >= Threshold
  IN
  /\ c \in deposited
  /\ InwardId(c) \in settled \/ toEvm[Uid[c]].chain = Hathor
  /\ <<f, c, b>> \notin ballots
  /\ enough => accepted[c] = Unmapped /\ Known(b.token)
  /\ ballots' = ballots \cup {<<f, c, b>>}
  /\ accepted' = IF enough THEN [accepted EXCEPT ![c] = b] ELSE accepted
  /\ UNCHANGED <<maps, escrow, minted, mined, claimed, hathor, multisig>>

Serve ==
  \/ \E c \in Outward \cup Inward : Propose(c)
  \/ \E p \in proposals : Push(p) \/ \E f \in Federators : Sign(f, p)
  \/ \E c \in Inward : Claim(c) \/ \E f \in Federators : Vote(f, c)

Next ==
  \/ \E tx \in {Event[c].tx : c \in Outward} : Cross(tx)
  \/ \E c \in Inward : Deposit(c)
  \/ \E m \in Remaps : AddHathorToken(m)
  \/ Serve

Spec == Init /\ [][Next]_vars

\* The federators go on handing over, signing, pushing and voting (HathorMultisig
\* and EvmVoting say when), and what was accepted is claimed.  Each step is taken
\* once, so that none can be put off for ever by the others.
FairSpec == Spec /\ WF_vars(Serve)

-----------------------------------------------------------------------------
(* Properties *)

\* A token was given to the wrong chain, or one of Hathor to another than before.
Clash ==
  \E m \in FirstMap \cup remaps :
    \/ (m.chain = Evm) # (m.token \in Native)
    \/ \E n \in FirstMap \cup remaps : m.uid = n.uid /\ (m.token # n.token \/ m.chain # n.chain)

Settled(c) == \E i \in settled : i.of = IF c \in Inward THEN c ELSE Event[c]
Standing(t, chain) == {u \in Uids : toEvm[u] = [chain |-> chain, token |-> t]}

\* What users and the wallet hold of a native token's counterparts, and what was
\* melted and waits for its claim.
OwedByBridge(t) ==
  LET U == Standing(t, Evm) IN
  SumFunction([u \in U |-> held[u] + Value(Of(wallet, u))])
    + SumFunction([c \in {x \in Inward \ claimed : Uid[x] \in U /\ Settled(x)} |-> Total(c)])

\* The side tokens, those that wait for their claim, and what was burnt and waits
\* for its transfer.
OwedByWallet(t) ==
  LET U == Standing(t, Hathor) IN
  minted[t]
    + SumFunction([c \in {x \in deposited \ claimed : Uid[x] \in U} |-> ToEvm(Total(c))])
    + SumFunction([c \in {x \in mined : Event[x].token = t /\ ~Settled(x)} |-> Event[c].amount])

InWallet(t) == SumFunction([u \in Standing(t, Hathor) |-> Value(Of(wallet, u))])

\* Everything that circulates has its counterpart locked on the other side
\* (utils.ts l.229-262, Bridge.sol l.499), whatever digits were cut off, and
\* whatever the owners map (Bridge.sol l.729) but a token of Hathor to a second
\* token, or a token to the wrong chain.
Backed ==
  Clash \/
    /\ \A t \in Native : FromEvm(ToEvm(OwedByBridge(t)), Decimals[t]) <= escrow[t]
    /\ \A t \in Pseudo : OwedByWallet(t) <= ToEvm(InWallet(t))

Remapped(e) == \E m \in remaps : m.token = e.token \/ m.uid = Target(e)

\* Not the first event of its transaction, or the owners changed its token.
Overlooked(c) ==
  Remapped(Event[c]) \/ \E d \in mined : Event[d].tx = Event[c].tx /\ Index[d] < Index[c]

\* An output was locked, or the wallet spent it on another transaction.
Undercut(c) == ~Settled(c) /\ \E k \in Coins(c) : k.locked \/ k \notin wallet

\* validateTx refuses what the wallet built for a crossing only for these reasons
\* (EvmBroker.ts l.53, Broker.ts l.490): nothing else in the amounts, tokens
\* and inputs can stop it at the proposal, a signature or the push.
RefusalExplained ==
  \A c \in mined \cup deposited :
    \A p \in Buildable(c) \cup {q \in proposals : q.id.of = IF c \in Inward THEN c ELSE Event[c]} :
      \/ p.id \in settled \/ Valid(p)
      \/ IF c \in Inward THEN Undercut(c) ELSE Overlooked(c)

\* What crossed to Hathor is paid there, unless it is too small or is paid out of
\* locked coins.
CrossingPaid ==
  \A c \in Outward :
    c \in mined ~> \/ Settled(c) \/ Overlooked(c) \/ Worth(Event[c]) = 0
                   \/ \E k \in wallet : k.uid = Target(Event[c]) /\ k.locked

\* A deposit is claimed on the EVM side, unless its melt was undercut or the owners
\* changed its token: the bridge then has what it must release.
DepositClaimed ==
  \A c \in Inward :
    c \in deposited ~> c \in claimed \/ Undercut(c) \/ \E m \in remaps : m.uid = Uid[c]
=============================================================================
