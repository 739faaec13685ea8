---------------------------- MODULE MCFederation ----------------------------
(* Small instances of Federation: four accounts, two transactions that     *)
(* share their single-chain id, three members at most.                     *)
EXTENDS FederationLiveness, TLC

CONSTANTS a1, a2, a3, a4, null, t1, t2, l1, b1, b2

MCAddress == {a1, a2, a3, a4, null}
MCTransaction == {t1, t2}
MCLegacy == {l1}
MCLegacyId == [t \in {t1, t2} |-> l1]
NoLegacyVotes == [l \in {l1} |-> {}]
\* a4 voted under the old id, whose event is genuine on one chain only.
SomeLegacyVotes == [l \in {l1} |-> {a4}]
=============================================================================
