------------------------------ MODULE EvmSide -------------------------------
(***************************************************************************)
(* The Federation and Bridge contracts of one chain together.  The vote    *)
(* that makes the count sufficient calls bridge.acceptTransfer in the same *)
(* transaction (Federation.sol l.221): if the bridge reverts, the vote is  *)
(* undone as well, so the two steps are one action, with both guards.      *)
(*                                                                         *)
(* The owner may point the federation to another bridge and the bridge to  *)
(* another federation, in two separate transactions.  The other contracts  *)
(* are not modelled: the other bridge accepts everything, and nothing is   *)
(* known of what the other federation lets the bridge accept.              *)
(***************************************************************************)
EXTENDS Federation, Bridge

CONSTANT FEDERATION   \* the federation contract (the bridge contract is BRIDGE)

\* The tuples the federation votes on are those the bridge accepts.
ASSUME SideAssumption ==
  /\ Transaction = Transfer
  /\ FEDERATION \in Federations
  /\ BRIDGE \in Bridges

vars == <<federationVars, bridgeVars>>

Init ==
  /\ FederationInit /\ bridge = BRIDGE
  /\ BridgeInit /\ federation = FEDERATION

-----------------------------------------------------------------------------
\* Fault: a transfer the bridge refuses counts as processed all the same.
VoteIgnoringRefusal(m, t) ==
  /\ MayVote(m, t)
  /\ VoteTransaction(m, t)
  /\ IF t \in processed' /\ bridge = BRIDGE /\ accepted[t.hash] = NONE
     THEN AcceptTransfer(FEDERATION, t)
     ELSE UNCHANGED bridgeVars

\* Fault: the bridge is called before the votes are counted.
VoteAcceptingAtOnce(m, t) ==
  /\ MayVote(m, t)
  /\ VoteTransaction(m, t)
  /\ IF bridge = BRIDGE
     THEN AcceptTransfer(FEDERATION, t)
     ELSE UNCHANGED bridgeVars

Vote(m, t) ==
  /\ MayVote(m, t)
  /\ VoteTransaction(m, t)
  /\ IF t \in processed' /\ bridge = BRIDGE
     THEN AcceptTransfer(FEDERATION, t)
     ELSE UNCHANGED bridgeVars

AcceptFromOther(t) ==
  \E f \in Federations \ {FEDERATION} :
    AcceptTransfer(f, t) /\ UNCHANGED federationVars

ChangeRoster ==
  /\ \/ \E a \in Address : AddMember(a) \/ RemoveMember(a)
     \/ \E r \in 0..MAX_MEMBER_COUNT : ChangeRequirement(r)
  /\ UNCHANGED bridgeVars

Users == (AnyClaim \/ AnyCross) /\ UNCHANGED federationVars

Repoint ==
  \/ \E b \in Bridges : SetBridge(b) /\ UNCHANGED bridgeVars
  \/ Administer /\ UNCHANGED federationVars

\* The owner gives tokens of the other chains their side tokens.
MapTokens ==
  /\ \/ \E d \in Chain, tok \in Original, s \in Side : CreateSideToken(d, tok, s)
     \/ Remap
  /\ UNCHANGED federationVars

Next ==
  \/ \E m \in Address, t \in Transfer : Vote(m, t)
  \/ \E t \in Transfer : AcceptFromOther(t)
  \/ ChangeRoster
  \/ Users
  \/ Repoint
  \/ MapTokens

Spec == Init /\ [][Next]_vars

-----------------------------------------------------------------------------
(* Properties.                                                             *)

\* While the contracts point at each other their two records move together,
\* although each has its own idea of identity (the whole tuple here, the hash
\* there): exactly what a step marks as processed is what it accepts.  So a
\* second event under an accepted hash is never processed, and a vote the
\* bridge refuses leaves no trace.
Acceptances == {accepted[h] : h \in Hash} \ {NONE}

RecordsAgree ==
  [][bridge = BRIDGE /\ federation = FEDERATION =>
       processed' \ processed = Acceptances' \ Acceptances]_vars

\* As long as the members outside Honest are too few at each acceptance,
\* nothing but genuine transfers is ever paid, even through re-pointing back
\* and forth: what this bridge accepts from this federation has the votes of
\* a majority of the members of that moment.
AcceptedByMajority ==
  [][\A h \in Hash :
       accepted'[h] # accepted[h] /\ federation = FEDERATION =>
         LET t == accepted'[h] IN
         /\ 2 * Cardinality(Approvers(votes', t)) > Cardinality(Members)
         /\ t \in Genuine \/ DishonestReachThreshold]_vars

\* The contracts keep what Settlement promises.
PaidOf(h) == {claimLog[i].receiver : i \in {j \in DOMAIN claimLog : claimLog[j].hash = h}}

Promises == INSTANCE Settlement WITH
  NOBODY <- NONE,
  promised <- {accepted[h] : h \in Hash} \ {NONE},
  payee <- [t \in Transfer |->
              IF accepted[t.hash] = t /\ PaidOf(t.hash) # {}
              THEN CHOOSE a \in PaidOf(t.hash) : TRUE ELSE NONE],
  vault <- [tok \in Native |-> balance[tok][BRIDGE]]

KeepsPromises == Promises!Spec
=============================================================================
