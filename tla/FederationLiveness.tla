------------------------- MODULE FederationLiveness -------------------------
(***************************************************************************)
(* Federation with honest federators that keep voting, as their polling    *)
(* loop does, and with a record of whether a member was ever removed.      *)
(***************************************************************************)
EXTENDS Federation

VARIABLE shrunk             \* has a member been removed?

WatchedInit == FederationInit /\ shrunk = FALSE

Watch == shrunk' = (shrunk \/ Len(members') < Len(members))

WatchedNext ==
  \/ \E m \in Address, t \in Transaction : MayVote(m, t) /\ VoteTransaction(m, t) /\ Watch
  \/ \E a \in Address : AddMember(a) /\ Watch
  \/ \E a \in Address : RemoveMember(a) /\ Watch
  \/ \E r \in 0..MAX_MEMBER_COUNT : ChangeRequirement(r) /\ Watch
  \/ \E b \in Bridges : SetBridge(b) /\ Watch

WatchedSpec ==
  /\ WatchedInit /\ [][WatchedNext]_<<federationVars, shrunk>>
  /\ \A m \in Honest, t \in Genuine : WF_<<federationVars, shrunk>>(VoteTransaction(m, t) /\ Watch)

HonestReachThreshold ==
  LET n == Cardinality({i \in DOMAIN members : members[i] \in Honest}) IN
  n >= getMinimalNumberOfVotes /\ n >= required

\* Every genuine transfer is eventually processed (Federation.sol l.218),
\* whatever the order of votes, additions and changes of the requirement,
\* while nobody is removed and the honest members reach the threshold.
EventuallyProcessed ==
  \A t \in Genuine : <>(IsProcessed(t) \/ shrunk \/ ~HonestReachThreshold)
=============================================================================
