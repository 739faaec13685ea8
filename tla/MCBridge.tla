------------------------------ MODULE MCBridge ------------------------------
(* Small instances of Bridge: one native token with fewer decimals than 18, *)
(* one side token with a granularity, and transfers that share a hash.     *)
EXTENDS Bridge, TLC

CONSTANTS u1, u2, owner, bridge, nat1, side1, rem1, f1, none

MCAccount == {u1, u2}
MCNative == {nat1}
MCSide == {side1}
MCRemote == {rem1}
MCChain == {31}

MCScale == [tok \in {nat1, side1} |-> IF tok = nat1 THEN 2 ELSE 1]
MCGranularity == [tok \in {side1} |-> 10]

T(h, tok, n, l) ==
  [hash |-> h, token |-> tok, from |-> u2, to |-> u1, amount |-> n, log |-> l, origin |-> 31]

\* Two transfers of nat1 under hash 1, one of rem1 under hash 2, one claimed of old.
MCTransfer == {T(1, nat1, 5, 0), T(1, nat1, 9, 1), T(2, rem1, 3, 0), T(3, rem1, 3, 0)}
MCLegacyClaimed == {LegacyDataHash(T(3, rem1, 3, 0))}
=============================================================================
