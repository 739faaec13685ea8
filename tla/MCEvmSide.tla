------------------------------ MODULE MCEvmSide -----------------------------
(* Small instances of EvmSide: three accounts that may be members, one     *)
(* native token, two transfers whose data differ under the same hash (one  *)
(* of them never happened), one user.                                      *)
EXTENDS EvmSide, TLC

CONSTANTS a1, a2, a3, null, l1, u1, nat1, side1, owner, b1, b2, f1, f2, none

MCTransferOf(n) ==
  [hash |-> 1, token |-> nat1, from |-> u1, to |-> u1, amount |-> n, log |-> 0, origin |-> 31]
MCTransfer == {MCTransferOf(4), MCTransferOf(6)}
MCGenuine == {MCTransferOf(4)}
MCLegacyId == [t \in MCTransfer |-> l1]
MCLegacyVotes == [l \in {l1} |-> {}]
MCScale == [tok \in {nat1, side1} |-> 2]
MCGranularity == [tok \in {side1} |-> 1]
MCChain == {31}
\* The two honest accounts play the same part.
MCSymmetry == Permutations({a1, a2})
=============================================================================
