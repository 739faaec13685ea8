----------------------------- MODULE Federation -----------------------------
(***************************************************************************)
(* The Federation contract (bridge/contracts/Federation/Federation.sol):   *)
(* an array of members, a required number of votes, and the votes that     *)
(* decide which transfers the Bridge contract is told to accept.           *)
(*                                                                         *)
(* A transaction of the chain is atomic, so every external function is one *)
(* action; a call that reverts changes nothing and is a disabled action.   *)
(* A Transaction stands for the argument tuple of voteTransaction (all of  *)
(* them name this chain as destination: l.172 reverts the others).  Its    *)
(* transactionIdMultichain, a hash of the whole tuple, is the tuple        *)
(* itself; its transactionId leaves the two chain ids out, so tuples that  *)
(* differ only there share it: LegacyId.  Versions before the multichain   *)
(* one wrote votes and processed under that id, and the proxy keeps their  *)
(* storage: LegacyVotes, LegacyProcessed.                                  *)
(***************************************************************************)
EXTENDS Naturals, Sequences, FiniteSets, Roster

CONSTANTS
  Address,          \* accounts
  NULL_ADDRESS,     \* address(0)
  MAX_MEMBER_COUNT, \* 50 in the code
  Transaction,      \* argument tuples of voteTransaction
  Legacy,           \* ids of the old, single-chain form
  LegacyId,         \* Transaction -> Legacy
  LegacyVotes,      \* votes an older version left in storage
  LegacyProcessed,  \* ids an older version processed
  Bridges,          \* bridge contracts the owner may choose
  Honest,           \* accounts that vote only for what they saw happen
  Genuine           \* the transactions that did happen on the other chain

ASSUME AddressAssumption == NULL_ADDRESS \in Address

ASSUME CountAssumption == MAX_MEMBER_COUNT \in Nat \ {0}

ASSUME LegacyAssumption ==
  /\ Transaction \cap Legacy = {}
  /\ LegacyId \in [Transaction -> Legacy]
  /\ LegacyVotes \in [Legacy -> SUBSET (Address \ {NULL_ADDRESS})]
  /\ LegacyProcessed \subseteq Legacy

\* Older honest votes were for events that happened, whatever their chain.
ASSUME HonestAssumption ==
  /\ Honest \subseteq Address
  /\ Genuine \subseteq Transaction
  /\ \A t \in Transaction \ Genuine : LegacyVotes[LegacyId[t]] \cap Honest = {}

VARIABLES
  members,    \* the array of members
  isMember,   \* mapping address => bool
  required,   \* votes required by the owner
  votes,      \* transaction id => accounts that voted for it
  processed,  \* transaction ids whose transfer the bridge was told to accept
  bridge      \* the bridge contract told

federationVars == <<members, isMember, required, votes, processed, bridge>>

Id == Transaction \cup Legacy

FederationTypeOK ==
  /\ members \in Seq(Address)
  /\ isMember \in [Address -> BOOLEAN]
  /\ required \in Nat
  /\ votes \in [Id -> SUBSET Address]
  /\ processed \in SUBSET Id
  /\ bridge \in Bridges

-----------------------------------------------------------------------------
(* Views.                                                                  *)

Members == Elements(members)

IsProcessed(t) == t \in processed \/ LegacyId[t] \in processed

\* Who voted for t when the votes are v, under either of its ids.
VotersOf(v, t) == v[t] \cup v[LegacyId[t]]

IsVoted(m, t) == m \in VotersOf(votes, t)

\* Fault: half of the members is enough.
HalfOfVotes == Len(members) \div 2

getMinimalNumberOfVotes == Len(members) \div 2 + 1

\* Fault: everybody who ever voted is counted.
AmountOfAllVotes(v, t) == Cardinality(VotersOf(v, t))

\* The loop of validateTransaction counts positions of the array; it returns
\* true at the first prefix with enough votes, so exactly if all have enough.
AmountVotes(v, t) ==
  Cardinality({i \in DOMAIN members : members[i] \in VotersOf(v, t)})

\* Fault: one vote more than necessary is asked for.
ValidateTooManyVotes(v, t) ==
  /\ AmountVotes(v, t) > getMinimalNumberOfVotes
  /\ AmountVotes(v, t) >= required

ValidateTransaction(v, t) ==
  /\ AmountVotes(v, t) >= getMinimalNumberOfVotes
  /\ AmountVotes(v, t) >= required

ValidRequirement(count, r) == r <= count /\ r # 0 /\ count # 0

-----------------------------------------------------------------------------
(* initialize: any array of distinct, non-null accounts.                   *)
FederationInit ==
  /\ members \in UNION {[1..n -> Address \ {NULL_ADDRESS}] : n \in 1..MAX_MEMBER_COUNT}
  /\ NoDuplicates(members)
  /\ isMember = [a \in Address |-> a \in Members]
  /\ required \in 1..MAX_MEMBER_COUNT
  /\ ValidRequirement(Len(members), required)
  /\ votes = [id \in Id |-> IF id \in Legacy THEN LegacyVotes[id] ELSE {}]
  /\ processed = LegacyProcessed
  /\ bridge \in Bridges

(* A member votes.  The vote that makes the count sufficient also calls    *)
(* bridge.acceptTransfer; if that reverts the whole call does, so here it  *)
(* is an action that does not happen (EvmSide adds the bridge's guards).   *)
VoteTransaction(m, t) ==
  /\ isMember[m]
  /\ ~IsProcessed(t)
  /\ ~IsVoted(m, t)
  /\ votes' = [votes EXCEPT ![t] = @ \cup {m}]
  /\ processed' = IF ValidateTransaction(votes', t)
                  THEN processed \cup {t} ELSE processed
  /\ UNCHANGED <<members, isMember, required, bridge>>

AddMember(a) ==
  /\ a # NULL_ADDRESS
  /\ ~isMember[a]
  /\ Len(members) < MAX_MEMBER_COUNT
  /\ isMember' = [isMember EXCEPT ![a] = TRUE]
  /\ members' = Append(members, a)
  /\ UNCHANGED <<required, votes, processed, bridge>>

RemoveMember(a) ==
  /\ a # NULL_ADDRESS
  /\ isMember[a]
  /\ Len(members) > 1
  /\ Len(members) - 1 >= required
  /\ isMember' = [isMember EXCEPT ![a] = FALSE]
  /\ members' = SwapAndPop(members, a)
  /\ UNCHANGED <<required, votes, processed, bridge>>

ChangeRequirement(r) ==
  /\ ValidRequirement(Len(members), r)
  /\ r >= 2
  /\ required' = r
  /\ UNCHANGED <<members, isMember, votes, processed, bridge>>

SetBridge(b) ==
  /\ bridge' = b
  /\ UNCHANGED <<members, isMember, required, votes, processed>>

-----------------------------------------------------------------------------
\* Who may vote for what: honest accounts only for genuine transactions.
MayVote(m, t) == m \in Honest => t \in Genuine

FederationNext ==
  \/ \E m \in Address, t \in Transaction : MayVote(m, t) /\ VoteTransaction(m, t)
  \/ \E a \in Address : AddMember(a) \/ RemoveMember(a)
  \/ \E r \in 0..MAX_MEMBER_COUNT : ChangeRequirement(r)
  \/ \E b \in Bridges : SetBridge(b)

FederationSpec == FederationInit /\ [][FederationNext]_federationVars

-----------------------------------------------------------------------------
(* Properties.                                                             *)

\* The array, the mapping and the requirement agree whatever the order of
\* additions, swap-and-pop removals and changes of the requirement: no
\* duplicates, isMember is the array's range, required can be reached.
MembersConsistent ==
  /\ NoDuplicates(members)
  /\ \A a \in Address : isMember[a] <=> a \in Members
  /\ ~isMember[NULL_ADDRESS]
  /\ Len(members) <= MAX_MEMBER_COUNT
  /\ required \in 1..Len(members)

\* "the members should approve the transaction by 50% + 1" (l.51): at the
\* moment a transaction is processed, the set of present members who voted
\* for it is a strict majority and has the required size.  The code counts
\* array positions, under two ids, with votes of members long gone around.
Approvers(v, t) == Members \cap VotersOf(v, t)

MajorityApproved ==
  [][\A t \in processed' \ processed :
       /\ 2 * Cardinality(Approvers(votes', t)) > Cardinality(Members)
       /\ Cardinality(Approvers(votes', t)) >= required]_federationVars

\* A transaction that never happened on the other chain is processed only if
\* the present members outside Honest reach the threshold by themselves:
\* votes of removed members, of old ids or cast twice do not help.
Dishonest == {i \in DOMAIN members : members[i] \notin Honest}

DishonestReachThreshold ==
  /\ Cardinality(Dishonest) >= getMinimalNumberOfVotes
  /\ Cardinality(Dishonest) >= required

NoForgedTransfer ==
  [][\A t \in processed' \ processed : t \in Genuine \/ DishonestReachThreshold]_federationVars

\* The vote that completes those of all present members is accepted, whatever
\* members and requirement were before: only a removal can leave a transfer
\* that all present members have voted for and that is not processed (nobody
\* can vote for it again: l.200).
AllVoted(t) == Members \subseteq VotersOf(votes, t)

LastVoteAccepts ==
  [][\A t \in Transaction :
       AllVoted(t)' /\ ~AllVoted(t) => IsProcessed(t)' \/ Len(members') < Len(members)]_federationVars

\* "if it has enough votes it accepts the transfer" (l.150), taken as it
\* stands: what all present members voted for is processed.
EnoughVotesAccepts == \A t \in Transaction : AllVoted(t) => IsProcessed(t)
=============================================================================
